---- MODULE Spec2Model ----
(***************************************************************************)
(* Model of the TaskAgent decision engine of Archon                        *)
(* (python/src/agents/task_agent.py): keyword classification of free text, *)
(* the fixed decomposition templates, the per-item creation loops that     *)
(* submit the emitted task specifications to the external task store, the  *)
(* project health analysis, and the tools that list, update and analyze    *)
(* the tasks of a project; and of the assignee selection helper of         *)
(* python/tests/test_task_agent_simple.py.                                 *)
(*                                                                         *)
(* Text is a sequence of one-character strings, so that Python's           *)
(* str.lower() and the substring test `kw in text` are modelled on         *)
(* characters.                                                             *)
(***************************************************************************)
EXTENDS Integers, Sequences, FiniteSets

VARIABLES
    inwords,         \* input: the words the title and description were typed from
    title,           \* input: title argument (characters)
    description,     \* input: description argument (characters)
    fn,              \* which pure function produced `out` ("none" before any)
    out,             \* result list of the pure function applied
    pc,              \* position of the running tool: "idle", "cp_project", "gp_create", "bd_create",
                     \* "lt_list", "us_list", "us_update", "ap_list"
    ctx_project_id,  \* ctx.deps.project_id of the conversation (NoProject = None)
    target,          \* project_id the running batch submits to
    tasks,           \* the list the running batch iterates over, or the tasks a tool was listed
    idx,             \* 1-based index of the create request in flight
    tasks_created,   \* the loop's counter
    requests,        \* create requests sent by the running / last invocation, in order
    outcomes,        \* what each response received for them was, in order
    last_response,   \* the response handled last
    result,          \* value returned by the last finished tool
    store,           \* tasks held by the external store, in creation order
    nprojects,       \* number of projects the store has created
    history,         \* finished invocations, oldest first
    faults,          \* number of non-success responses the store has given
    new_status,      \* new_status argument of the running update_task_status
    conversations,   \* the run_conversation calls in progress, one record each
    contexts         \* the TaskDependencies objects built so far, by object

vars == <<inwords, title, description, fn, out, pc, ctx_project_id, target, tasks,
          idx, tasks_created, requests, outcomes, last_response, result, store,
          nprojects, history, faults, new_status, conversations, contexts>>

\* what the tools of the creation loops leave alone, and what the pure
\* functions leave alone
pureVars == <<inwords, fn, out, new_status, conversations, contexts>>
opVars == <<pc, ctx_project_id, target, tasks, idx, tasks_created, requests,
            outcomes, last_response, result, store, nprojects, history, faults,
            new_status, conversations, contexts>>

----------------------------------------------------------------------------
(* Bounds of the model *)

\* number of words typed into title and description together
MaxWords == 2
\* number of tool invocations in one behaviour
MaxOps == 2
\* number of non-success responses in one behaviour
MaxFaults == 2

----------------------------------------------------------------------------
(* Text *)

UpperToLower ==
    [c \in {"A","B","C","D","E","F","G","H","I","J","K","L","M",
            "N","O","P","Q","R","S","T","U","V","W","X","Y","Z"} |->
        CASE c = "A" -> "a" [] c = "B" -> "b" [] c = "C" -> "c" [] c = "D" -> "d"
          [] c = "E" -> "e" [] c = "F" -> "f" [] c = "G" -> "g" [] c = "H" -> "h"
          [] c = "I" -> "i" [] c = "J" -> "j" [] c = "K" -> "k" [] c = "L" -> "l"
          [] c = "M" -> "m" [] c = "N" -> "n" [] c = "O" -> "o" [] c = "P" -> "p"
          [] c = "Q" -> "q" [] c = "R" -> "r" [] c = "S" -> "s" [] c = "T" -> "t"
          [] c = "U" -> "u" [] c = "V" -> "v" [] c = "W" -> "w" [] c = "X" -> "x"
          [] c = "Y" -> "y" [] c = "Z" -> "z"]

\* str.lower()
Lower(s) ==
    [i \in 1..Len(s) |-> IF s[i] \in DOMAIN UpperToLower THEN UpperToLower[s[i]] ELSE s[i]]

\* Python's `k in s` on strings
Contains(s, k) ==
    \E i \in 0..(Len(s) - Len(k)) : SubSeq(s, i + 1, i + Len(k)) = k

\* any(keyword in text for keyword in keywords)
any_keyword_in(text, keywords) ==
    \E k \in keywords : Contains(text, k)

\* f"{a} {b}".lower()
combined_text(a, b) == Lower(a \o <<" ">> \o b)

----------------------------------------------------------------------------
(* Keywords of the source, as characters *)

kw_auth == <<"a","u","t","h">>
kw_login == <<"l","o","g","i","n">>
kw_user == <<"u","s","e","r">>
kw_account == <<"a","c","c","o","u","n","t">>
kw_api == <<"a","p","i">>
kw_backend == <<"b","a","c","k","e","n","d">>
kw_server == <<"s","e","r","v","e","r">>
kw_endpoint == <<"e","n","d","p","o","i","n","t">>
kw_ui == <<"u","i">>
kw_frontend == <<"f","r","o","n","t","e","n","d">>
kw_react == <<"r","e","a","c","t">>
kw_component == <<"c","o","m","p","o","n","e","n","t">>
kw_dashboard == <<"d","a","s","h","b","o","a","r","d">>
kw_database == <<"d","a","t","a","b","a","s","e">>
kw_db == <<"d","b">>
kw_data == <<"d","a","t","a">>
kw_model == <<"m","o","d","e","l">>
kw_interface == <<"i","n","t","e","r","f","a","c","e">>
kw_form == <<"f","o","r","m">>

auth_keywords == {kw_auth, kw_login, kw_user, kw_account}
api_keywords == {kw_api, kw_backend, kw_server, kw_endpoint}
frontend_keywords == {kw_ui, kw_frontend, kw_react, kw_component, kw_dashboard}
database_keywords == {kw_database, kw_db, kw_data, kw_model}
ui_breakdown_keywords == {kw_component, kw_ui, kw_interface, kw_form}

----------------------------------------------------------------------------
(* Task specifications.  A title or description is kept as the f-string it  *)
(* comes from: the literal before the interpolated argument, the argument  *)
(* (characters; empty for a plain literal) and the literal after it.       *)

Fixed(s) == [pre |-> s, arg |-> <<>>, post |-> ""]
Interp(pre, arg, post) == [pre |-> pre, arg |-> arg, post |-> post]

TaskSpec(t, d, a, p, f) ==
    [title |-> t, description |-> d, assignee |-> a, priority |-> p, feature |-> f]

_generate_auth_tasks ==
    << TaskSpec(Fixed("Design authentication flow"),
                Fixed("Design the user authentication workflow including login, registration, and password reset flows"),
                "User", 9, "authentication"),
       TaskSpec(Fixed("Implement user model and database schema"),
                Fixed("Create user model with fields for authentication, set up database schema with proper indexing"),
                "AI IDE Agent", 9, "authentication"),
       TaskSpec(Fixed("Build login API endpoint"),
                Fixed("Implement secure login endpoint with JWT token generation and validation"),
                "AI IDE Agent", 8, "authentication"),
       TaskSpec(Fixed("Create registration endpoint"),
                Fixed("Build user registration with email verification and password hashing"),
                "AI IDE Agent", 8, "authentication") >>

\* faulty variant: the documentation task carries priority 7
_generate_api_tasks_doc_priority_7 ==
    << TaskSpec(Fixed("Set up API framework and routing"),
                Fixed("Initialize API framework, set up routing structure, and configure middleware"),
                "AI IDE Agent", 9, "api"),
       TaskSpec(Fixed("Implement API authentication middleware"),
                Fixed("Create middleware for API authentication and authorization"),
                "AI IDE Agent", 8, "api"),
       TaskSpec(Fixed("Create API documentation"),
                Fixed("Set up API documentation with OpenAPI/Swagger specifications"),
                "Archon", 7, "api") >>

_generate_api_tasks ==
    << TaskSpec(Fixed("Set up API framework and routing"),
                Fixed("Initialize API framework, set up routing structure, and configure middleware"),
                "AI IDE Agent", 9, "api"),
       TaskSpec(Fixed("Implement API authentication middleware"),
                Fixed("Create middleware for API authentication and authorization"),
                "AI IDE Agent", 8, "api"),
       TaskSpec(Fixed("Create API documentation"),
                Fixed("Set up API documentation with OpenAPI/Swagger specifications"),
                "Archon", 6, "api") >>

_generate_frontend_tasks ==
    << TaskSpec(Fixed("Set up frontend framework and build system"),
                Fixed("Initialize React/Vue/Angular project with build configuration and dev environment"),
                "AI IDE Agent", 9, "frontend"),
       TaskSpec(Fixed("Design UI component library"),
                Fixed("Create reusable UI components and establish design system"),
                "User", 7, "frontend"),
       TaskSpec(Fixed("Implement responsive layouts"),
                Fixed("Build responsive layouts for mobile and desktop views"),
                "AI IDE Agent", 6, "frontend") >>

_generate_database_tasks ==
    << TaskSpec(Fixed("Design database schema"),
                Fixed("Create comprehensive database schema with relationships, indexes, and constraints"),
                "User", 9, "database"),
       TaskSpec(Fixed("Set up database migrations"),
                Fixed("Implement database migration system for schema versioning"),
                "AI IDE Agent", 8, "database"),
       TaskSpec(Fixed("Create database access layer"),
                Fixed("Implement ORM setup and database access patterns"),
                "AI IDE Agent", 7, "database") >>

_generate_generic_project_tasks(t) ==
    << TaskSpec(Fixed("Project initialization and setup"),
                Interp("Initialize ", t, " project structure, dependencies, and development environment"),
                "AI IDE Agent", 9, "setup"),
       TaskSpec(Fixed("Define project requirements"),
                Interp("Analyze and document detailed requirements for ", t, ""),
                "User", 8, "planning"),
       TaskSpec(Fixed("Create project architecture design"),
                Fixed("Design system architecture and component interactions"),
                "User", 7, "architecture") >>

\* the two tasks appended for all projects
common_project_tasks(t) ==
    << TaskSpec(Fixed("Create project documentation"),
                Interp("Set up initial documentation for ", t,
                       " project including README, setup instructions, and architecture overview"),
                "Archon", 7, "documentation"),
       TaskSpec(Fixed("Set up testing framework"),
                Fixed("Configure testing infrastructure and write initial test cases"),
                "AI IDE Agent", 6, "testing") >>

\* the four independent `if any(...)` tests of _generate_project_tasks
matches_auth(text) == any_keyword_in(text, auth_keywords)
matches_api(text) == any_keyword_in(text, api_keywords)
matches_frontend(text) == any_keyword_in(text, frontend_keywords)
matches_database(text) == any_keyword_in(text, database_keywords)

\* faulty variant: the four tests chained with elif
domain_tasks_first_match(text) ==
    IF matches_auth(text) THEN _generate_auth_tasks
    ELSE IF matches_api(text) THEN _generate_api_tasks
    ELSE IF matches_frontend(text) THEN _generate_frontend_tasks
    ELSE IF matches_database(text) THEN _generate_database_tasks
    ELSE <<>>

\* faulty variant: the database test placed first
domain_tasks_database_first(text) ==
    (IF matches_database(text) THEN _generate_database_tasks ELSE <<>>)
    \o (IF matches_auth(text) THEN _generate_auth_tasks ELSE <<>>)
    \o (IF matches_api(text) THEN _generate_api_tasks ELSE <<>>)
    \o (IF matches_frontend(text) THEN _generate_frontend_tasks ELSE <<>>)

\* tasks.extend(...) under the four tests, in source order
domain_tasks(text) ==
    (IF matches_auth(text) THEN _generate_auth_tasks ELSE <<>>)
    \o (IF matches_api(text) THEN _generate_api_tasks ELSE <<>>)
    \o (IF matches_frontend(text) THEN _generate_frontend_tasks ELSE <<>>)
    \o (IF matches_database(text) THEN _generate_database_tasks ELSE <<>>)

\* faulty variant: the generic tasks are appended whatever matched
with_generic_always(ts, t) == ts \o _generate_generic_project_tasks(t)

\* `if not tasks: tasks.extend(generic)`
with_generic_fallback(ts, t) ==
    IF ts = <<>> THEN _generate_generic_project_tasks(t) ELSE ts

\* the list _generate_project_tasks builds before its creation loop
project_task_list(t, d) ==
    LET text == combined_text(t, d)
    IN  with_generic_fallback(domain_tasks(text), t) \o common_project_tasks(t)

api_endpoint_subtasks(t) ==
    << TaskSpec(Interp("Design ", t, " request/response schema"),
                Fixed("Define API request parameters, response format, and data validation rules"),
                "User", 8, "api_design"),
       TaskSpec(Interp("Implement ", t, " input validation"),
                Fixed("Add input validation and sanitization for the endpoint"),
                "AI IDE Agent", 9, "validation"),
       TaskSpec(Interp("Add ", t, " business logic"),
                Fixed("Implement the core business logic for the endpoint functionality"),
                "AI IDE Agent", 8, "business_logic"),
       TaskSpec(Interp("Create ", t, " error handling"),
                Fixed("Implement comprehensive error handling and appropriate HTTP status codes"),
                "AI IDE Agent", 7, "error_handling"),
       TaskSpec(Interp("Write tests for ", t, ""),
                Fixed("Create unit and integration tests for the endpoint"),
                "AI IDE Agent", 6, "testing") >>

ui_component_subtasks(t) ==
    << TaskSpec(Interp("Design ", t, " wireframes"),
                Fixed("Create wireframes and visual design for the component"),
                "User", 8, "design"),
       TaskSpec(Interp("Implement ", t, " structure"),
                Fixed("Build the basic component structure and layout"),
                "AI IDE Agent", 8, "implementation"),
       TaskSpec(Interp("Add ", t, " interactivity"),
                Fixed("Implement user interactions and event handling"),
                "AI IDE Agent", 7, "functionality"),
       TaskSpec(Interp("Style ", t, " component"),
                Fixed("Apply responsive styling and accessibility features"),
                "AI IDE Agent", 6, "styling") >>

generic_subtasks(t) ==
    << TaskSpec(Interp("Research and plan ", t, ""),
                Interp("Research requirements and create detailed plan for ", t, ""),
                "User", 8, "planning"),
       TaskSpec(Interp("Implement core ", t, " functionality"),
                Interp("Build the main functionality for ", t, ""),
                "AI IDE Agent", 7, "implementation"),
       TaskSpec(Interp("Test and validate ", t, ""),
                Interp("Create tests and validate the implementation of ", t, ""),
                "AI IDE Agent", 6, "testing") >>

\* `"api" in combined_text and "endpoint" in combined_text`
is_api_endpoint(text) == Contains(text, kw_api) /\ Contains(text, kw_endpoint)
\* the elif test
is_ui_component(text) == any_keyword_in(text, ui_breakdown_keywords)

\* faulty variant: the UI test comes before the API endpoint test
_analyze_ui_rule_first(task_title, task_description) ==
    LET text == combined_text(task_title, task_description)
    IN  IF is_ui_component(text) THEN ui_component_subtasks(task_title)
        ELSE IF is_api_endpoint(text) THEN api_endpoint_subtasks(task_title)
        ELSE generic_subtasks(task_title)

_analyze_and_break_down_task(task_title, task_description) ==
    LET text == combined_text(task_title, task_description)
    IN  IF is_api_endpoint(text) THEN api_endpoint_subtasks(task_title)
        ELSE IF is_ui_component(text) THEN ui_component_subtasks(task_title)
        ELSE generic_subtasks(task_title)

----------------------------------------------------------------------------
(* Inputs: titles and descriptions are typed from this vocabulary *)

w_Login == <<"L","o","g","i","n">>
w_account == <<"a","c","c","o","u","n","t">>
w_author == <<"a","u","t","h","o","r">>
w_user == <<"u","s","e","r">>
w_API == <<"A","P","I">>
w_rapid == <<"r","a","p","i","d">>
w_Backend == <<"B","a","c","k","e","n","d">>
w_server == <<"s","e","r","v","e","r">>
w_endpoint == <<"e","n","d","p","o","i","n","t">>
w_UI == <<"U","I">>
w_build == <<"b","u","i","l","d">>
w_frontend == <<"f","r","o","n","t","e","n","d">>
w_React == <<"R","e","a","c","t">>
w_component == <<"c","o","m","p","o","n","e","n","t">>
w_dashboard == <<"d","a","s","h","b","o","a","r","d">>
w_database == <<"d","a","t","a","b","a","s","e">>
w_db == <<"d","b">>
w_metadata == <<"m","e","t","a","d","a","t","a">>
w_model == <<"m","o","d","e","l">>
w_interface == <<"i","n","t","e","r","f","a","c","e">>
w_form == <<"f","o","r","m">>
w_platform == <<"p","l","a","t","f","o","r","m">>
w_blog == <<"b","l","o","g">>
w_UserData == <<"U","s","e","r","D","a","t","a">>
w_API_UI == <<"A","P","I","/","U","I">>

Vocabulary ==
    {w_Login, w_account, w_author, w_user,
     w_API, w_rapid, w_Backend, w_server, w_endpoint,
     w_UI, w_build, w_frontend, w_React, w_component, w_dashboard,
     w_database, w_db, w_metadata, w_model,
     w_interface, w_form, w_platform, w_blog, w_UserData, w_API_UI}

WordSeqs(n) == UNION {[1..k -> Vocabulary] : k \in 0..n}

\* " ".join(ws)
RECURSIVE Join(_)
Join(ws) ==
    IF Len(ws) = 0 THEN <<>>
    ELSE IF Len(ws) = 1 THEN ws[1]
    ELSE ws[1] \o <<" ">> \o Join(Tail(ws))

NoProject == 0
NoResult == [kind |-> "none", count |-> 0, project_id |-> NoProject, msg |-> ""]
NoResponse == [shape |-> "none", success |-> "absent", error |-> "absent", project_id |-> NoProject]
NoStatus == "<none>"

OpsIdle ==
    /\ pc = "idle"
    /\ ctx_project_id = NoProject
    /\ target = NoProject
    /\ tasks = <<>>
    /\ idx = 0
    /\ tasks_created = 0
    /\ requests = <<>>
    /\ outcomes = <<>>
    /\ last_response = NoResponse
    /\ result = NoResult
    /\ store = <<>>
    /\ nprojects = 0
    /\ history = <<>>
    /\ faults = 0
    /\ new_status = NoStatus
    /\ conversations = <<>>
    /\ contexts = <<>>

----------------------------------------------------------------------------
(* The pure decomposition functions applied to every bounded input *)

InitDecompose ==
    /\ inwords \in WordSeqs(MaxWords)
    /\ \E k \in 0..Len(inwords) :
          /\ title = Join(SubSeq(inwords, 1, k))
          /\ description = Join(SubSeq(inwords, k + 1, Len(inwords)))
    /\ fn = "none"
    /\ out = <<>>
    /\ OpsIdle

DecomposeProject ==
    /\ fn = "none"
    /\ fn' = "decompose_project"
    /\ out' = project_task_list(title, description)
    /\ UNCHANGED <<inwords, title, description, opVars>>

DecomposeTask ==
    /\ fn = "none"
    /\ fn' = "decompose_task"
    /\ out' = _analyze_and_break_down_task(title, description)
    /\ UNCHANGED <<inwords, title, description, opVars>>

NextDecompose == DecomposeProject \/ DecomposeTask

SpecDecompose == InitDecompose /\ [][NextDecompose]_vars

----------------------------------------------------------------------------
(* Responses of the external store.  mcp_client.manage_* either raises or  *)
(* returns text; the tool passes the text to json.loads and reads the      *)
(* envelope with .get("success", False).                                   *)

\* shape: "raise" the call raised; "text" the text is not JSON;
\*        "json_other" JSON that is no object; "object" a JSON object.
\* success: the object's "success" member as written in the JSON text.
Response(shape, success, error, project_id) ==
    [shape |-> shape, success |-> success, error |-> error, project_id |-> project_id]

TransportError == Response("raise", "absent", "absent", NoProject)
NonJsonText == Response("text", "absent", "absent", NoProject)
NonObjectJson == Response("json_other", "absent", "absent", NoProject)
SuccessEnvelope(p) == Response("object", "true", "absent", p)
FailureEnvelope == Response("object", "false", "Database connection failed", NoProject)
EmptyEnvelope == Response("object", "absent", "absent", NoProject)
StringSuccessEnvelope(p) == Response("object", "\"false\"", "absent", p)

\* responses that come without the store having created anything
FailureResponses ==
    {TransportError, NonJsonText, NonObjectJson, FailureEnvelope, EmptyEnvelope,
     StringSuccessEnvelope(NoProject)}

\* what a response is, read off its shape and its "success" member alone
OutcomeClass(r) ==
    IF r.shape # "object" THEN "raised"
    ELSE IF r.success = "true" THEN "success_envelope"
    ELSE IF r.success \in {"false", "absent"} THEN "failure_envelope"
    ELSE "nonboolean_success"

\* faulty variant: only the await raises
Raises_only_transport(r) == r.shape = "raise"

\* the await or json.loads(...) or .get raises
Raises(r) == r.shape # "object"

\* Python truth value of a JSON member
Truthy(v) == v \notin {"false", "null", "0", "\"\""}

\* data.get("success", False), as tested by `if`
get_success(r) == IF r.success = "absent" THEN FALSE ELSE Truthy(r.success)

\* data.get('error', 'Unknown error')
get_error(r) == IF r.error = "absent" THEN "Unknown error" ELSE r.error

\* faulty variant: task_order is not passed and stays at the store's default
CreateRequest_default_order(p, task) ==
    [project_id |-> p, title |-> task.title, description |-> task.description,
     assignee |-> task.assignee, task_order |-> 0, feature |-> task.feature]

\* faulty variant: the context's project is sent instead of the target project
CreateRequest_to_context_project(p, task) ==
    [project_id |-> ctx_project_id, title |-> task.title, description |-> task.description,
     assignee |-> task.assignee, task_order |-> task.priority, feature |-> task.feature]

\* the arguments of manage_task(action="create", ...)
CreateRequest(p, task) ==
    [project_id |-> p, title |-> task.title, description |-> task.description,
     assignee |-> task.assignee, task_order |-> task.priority, feature |-> task.feature]

\* the task the store holds after accepting a create request
StoredTask(req) ==
    [project_id |-> req.project_id, title |-> req.title, description |-> req.description,
     assignee |-> req.assignee, task_order |-> req.task_order, feature |-> req.feature,
     status |-> "todo"]

\* faulty variant: every attempted create is counted
count_after_attempted(created, r) == created + 1

\* `if task_data.get("success", False): tasks_created += 1`
count_after(created, r) == IF get_success(r) THEN created + 1 ELSE created

\* faulty variant: the try/except around the create is missing
gp_item_aborts_without_try(r) == Raises(r)

\* _generate_project_tasks wraps each create in try/except: nothing ends the loop
gp_item_aborts(r) == FALSE

\* break_down_task has no try inside its loop: an exception leaves it
bd_item_aborts(r) == Raises(r)

Result(kind, count, p, msg) == [kind |-> kind, count |-> count, project_id |-> p, msg |-> msg]

Invocation(op, res, reqs, outs) ==
    [op |-> op, title |-> title, description |-> description, project_id |-> target,
     emitted |-> tasks, requests |-> reqs, outcomes |-> outs, result |-> res]

----------------------------------------------------------------------------
(* The tools, one action per stretch of code between two awaits *)

\* what the orchestrator passes to the tools
ProjectTitles == {Join(<<w_API>>)}
TaskTitles == {Join(<<w_form>>)}
Descriptions == {<<>>}
\* the project_id argument: omitted, or the project that exists from the start
ProjectArgs == {NoProject, 1}

InitOps ==
    /\ inwords = <<>>
    /\ title = <<>>
    /\ description = <<>>
    /\ fn = "none"
    /\ out = <<>>
    /\ pc = "idle"
    /\ nprojects = 1
    /\ ctx_project_id \in {NoProject, 1}
    /\ target = NoProject
    /\ tasks = <<>>
    /\ idx = 0
    /\ tasks_created = 0
    /\ requests = <<>>
    /\ outcomes = <<>>
    /\ last_response = NoResponse
    /\ result = NoResult
    /\ store = <<>>
    /\ history = <<>>
    /\ faults = 0
    /\ new_status = NoStatus
    /\ conversations = <<>>
    /\ contexts = <<>>

\* the store answers the create request in flight
StoreAnswersCreate(r, req) ==
    \/ /\ r = SuccessEnvelope(NoProject)
       /\ store' = Append(store, StoredTask(req))
       /\ faults' = faults
    \/ /\ r \in FailureResponses
       /\ faults < MaxFaults
       /\ store' = store
       /\ faults' = faults + 1

\* create_project_with_tasks up to `await mcp_client.manage_project(...)`
CreateProjectCall ==
    /\ pc = "idle"
    /\ Len(history) < MaxOps
    /\ \E t \in ProjectTitles, d \in Descriptions :
          /\ title' = t
          /\ description' = d
    /\ pc' = "cp_project"
    /\ target' = NoProject
    /\ tasks' = <<>>
    /\ idx' = 0
    /\ tasks_created' = 0
    /\ requests' = <<>>
    /\ outcomes' = <<>>
    /\ last_response' = NoResponse
    /\ result' = NoResult
    /\ UNCHANGED <<pureVars, ctx_project_id, store, nprojects, history, faults>>

\* manage_project raised, or its text is no JSON object: the outer except
CreateProjectRaised ==
    /\ pc = "cp_project"
    /\ faults < MaxFaults
    /\ \E r \in {TransportError, NonJsonText, NonObjectJson} :
          LET res == Result("error_creating_project", 0, NoProject, r.shape)
          IN  /\ last_response' = r
              /\ result' = res
              /\ history' = Append(history, Invocation("create_project_with_tasks", res, <<>>, <<>>))
    /\ pc' = "idle"
    /\ faults' = faults + 1
    /\ UNCHANGED <<pureVars, title, description, ctx_project_id, target, tasks, idx,
                   tasks_created, requests, outcomes, store, nprojects>>

\* faulty variant: the context takes the answer's project id before the
\* success member is tested
CreateProjectRejected_updates_context ==
    /\ pc = "cp_project"
    /\ faults < MaxFaults
    /\ \E r \in {FailureEnvelope, EmptyEnvelope} :
          LET res == Result("failed_to_create_project", 0, NoProject, get_error(r))
          IN  /\ ~get_success(r)
              /\ last_response' = r
              /\ ctx_project_id' = r.project_id
              /\ result' = res
              /\ history' = Append(history, Invocation("create_project_with_tasks", res, <<>>, <<>>))
    /\ pc' = "idle"
    /\ faults' = faults + 1
    /\ UNCHANGED <<pureVars, title, description, target, tasks, idx,
                   tasks_created, requests, outcomes, store, nprojects>>

\* `if not project_data.get("success", False): return "Failed to create project: ..."`
CreateProjectRejected ==
    /\ pc = "cp_project"
    /\ faults < MaxFaults
    /\ \E r \in {FailureEnvelope, EmptyEnvelope} :
          LET res == Result("failed_to_create_project", 0, NoProject, get_error(r))
          IN  /\ ~get_success(r)
              /\ last_response' = r
              /\ result' = res
              /\ history' = Append(history, Invocation("create_project_with_tasks", res, <<>>, <<>>))
    /\ pc' = "idle"
    /\ faults' = faults + 1
    /\ UNCHANGED <<pureVars, title, description, ctx_project_id, target, tasks, idx,
                   tasks_created, requests, outcomes, store, nprojects>>

\* the project was created: the context is updated and _generate_project_tasks
\* runs up to its first `await mcp_client.manage_task(action="create", ...)`
CreateProjectOk ==
    /\ pc = "cp_project"
    /\ LET r == SuccessEnvelope(nprojects + 1)
           project_id == r.project_id
           ts == project_task_list(title, description)
       IN  /\ get_success(r)
           /\ last_response' = r
           /\ nprojects' = nprojects + 1
           /\ ctx_project_id' = project_id
           /\ target' = project_id
           /\ tasks' = ts
           /\ tasks_created' = 0
           /\ idx' = 1
           /\ requests' = <<CreateRequest(project_id, ts[1])>>
    /\ pc' = "gp_create"
    /\ UNCHANGED <<pureVars, title, description, outcomes, result, store, history, faults>>

\* one turn of a creation loop: the response to request idx is handled and either
\* the next request is sent, or the loop is left by an exception, or it ends
LoopTurn(r, aborts, nextpc, op, doneKind, errorKind) ==
    LET created == IF aborts THEN tasks_created ELSE count_after(tasks_created, r)
        outs == Append(outcomes, OutcomeClass(r))
    IN  /\ StoreAnswersCreate(r, requests[idx])
        /\ outcomes' = outs
        /\ last_response' = r
        /\ tasks_created' = created
        /\ IF aborts
           THEN LET res == Result(errorKind, 0, target, r.shape)
                IN  /\ result' = res
                    /\ history' = Append(history, Invocation(op, res, requests, outs))
                    /\ pc' = "idle"
                    /\ UNCHANGED <<idx, requests>>
           ELSE IF idx < Len(tasks)
           THEN /\ idx' = idx + 1
                /\ requests' = Append(requests, CreateRequest(target, tasks[idx + 1]))
                /\ pc' = nextpc
                /\ UNCHANGED <<result, history>>
           ELSE LET res == Result(doneKind, created, target, "")
                IN  /\ result' = res
                    /\ history' = Append(history, Invocation(op, res, requests, outs))
                    /\ pc' = "idle"
                    /\ UNCHANGED <<idx, requests>>
        /\ UNCHANGED <<pureVars, title, description, ctx_project_id, target, tasks, nprojects>>

\* _generate_project_tasks: the body of `for task in tasks` after the await,
\* and the return into create_project_with_tasks when the list is exhausted
GenerateTaskResponse ==
    /\ pc = "gp_create"
    /\ \E r \in {SuccessEnvelope(NoProject)} \cup FailureResponses :
          LoopTurn(r, gp_item_aborts(r), "gp_create", "create_project_with_tasks",
                   "project_created", "error_creating_project")

\* break_down_task up to its first `await mcp_client.manage_task(action="create", ...)`
BreakDownCall ==
    /\ pc = "idle"
    /\ Len(history) < MaxOps
    /\ \E t \in TaskTitles, d \in Descriptions, project_id \in ProjectArgs :
          LET target_project_id == IF project_id # NoProject THEN project_id ELSE ctx_project_id
              subtasks == _analyze_and_break_down_task(t, d)
          IN  /\ target_project_id # NoProject
              /\ title' = t
              /\ description' = d
              /\ target' = target_project_id
              /\ tasks' = subtasks
              /\ idx' = 1
              /\ requests' = <<CreateRequest(target_project_id, subtasks[1])>>
    /\ tasks_created' = 0
    /\ outcomes' = <<>>
    /\ last_response' = NoResponse
    /\ result' = NoResult
    /\ pc' = "bd_create"
    /\ UNCHANGED <<pureVars, ctx_project_id, store, nprojects, history, faults>>

\* `if not target_project_id: return "No project specified. ..."`
BreakDownNoProject ==
    /\ pc = "idle"
    /\ Len(history) < MaxOps
    /\ ctx_project_id = NoProject
    /\ \E t \in TaskTitles, d \in Descriptions :
          /\ title' = t
          /\ description' = d
    /\ target' = NoProject
    /\ tasks' = <<>>
    /\ idx' = 0
    /\ tasks_created' = 0
    /\ requests' = <<>>
    /\ outcomes' = <<>>
    /\ last_response' = NoResponse
    /\ LET res == Result("no_project_specified", 0, NoProject, "")
       IN  /\ result' = res
           /\ history' = Append(history,
                 [op |-> "break_down_task", title |-> title', description |-> description',
                  project_id |-> NoProject, emitted |-> <<>>, requests |-> <<>>,
                  outcomes |-> <<>>, result |-> res])
    /\ UNCHANGED <<pureVars, pc, ctx_project_id, store, nprojects, faults>>

\* break_down_task: the body of `for i, subtask in enumerate(subtasks, 1)` after
\* the await, the outer except, and the final return
BreakDownResponse ==
    /\ pc = "bd_create"
    /\ \E r \in {SuccessEnvelope(NoProject)} \cup FailureResponses :
          LoopTurn(r, bd_item_aborts(r), "bd_create", "break_down_task",
                   "broke_down", "error_breaking_down_task")

NextOps ==
    \/ CreateProjectCall
    \/ CreateProjectRaised
    \/ CreateProjectRejected
    \/ CreateProjectOk
    \/ GenerateTaskResponse
    \/ BreakDownCall
    \/ BreakDownNoProject
    \/ BreakDownResponse

Init == InitOps
Next == NextOps
Spec == Init /\ [][Next]_vars

----------------------------------------------------------------------------
(* Properties of the creation loops *)

Range(s) == {s[i] : i \in DOMAIN s}

NumberOf(class, outs) == Cardinality({i \in DOMAIN outs : outs[i] = class})

\* the request sent for position k of a finished invocation is the emitted spec, unchanged
RequestIsSpec(h, k) ==
    /\ h.requests[k].project_id = h.project_id
    /\ h.requests[k].title = h.emitted[k].title
    /\ h.requests[k].description = h.emitted[k].description
    /\ h.requests[k].assignee = h.emitted[k].assignee
    /\ h.requests[k].task_order = h.emitted[k].priority
    /\ h.requests[k].feature = h.emitted[k].feature

\* every emitted spec was submitted, once, in emission order
SubmittedWholeList(h) ==
    /\ Len(h.requests) = Len(h.emitted)
    /\ \A k \in DOMAIN h.requests : RequestIsSpec(h, k)

ProjectBatches ==
    {h \in Range(history) : h.op = "create_project_with_tasks" /\ h.emitted # <<>>}

BreakDownBatches ==
    {h \in Range(history) : h.op = "break_down_task" /\ h.emitted # <<>>}

\* C1: when project decomposition has met only success envelopes, success:false
\* envelopes and raised errors, the count it returns (and create_project_with_tasks
\* reports) is the number of success envelopes received, not the number of
\* create calls attempted.
C1_CountIsSuccessEnvelopes ==
    \A h \in ProjectBatches :
        "nonboolean_success" \notin Range(h.outcomes)
            => /\ h.result.kind = "project_created"
               /\ h.result.count = NumberOf("success_envelope", h.outcomes)

C1_Witness ==
    \E h \in ProjectBatches :
        /\ {"success_envelope", "failure_envelope", "raised"} \subseteq Range(h.outcomes)
        /\ h.result.count = NumberOf("success_envelope", h.outcomes)
        /\ h.result.count < Len(h.requests)

\* C2: in project decomposition no failed create (success:false envelope, raised
\* transport error, unparsable or non-object response) keeps a later TaskSpec from
\* being submitted: when the batch has ended every emitted TaskSpec was submitted.
C2_ProjectBatchSubmitsAll ==
    \A h \in ProjectBatches :
        /\ SubmittedWholeList(h)
        /\ Len(h.outcomes) = Len(h.emitted)
        /\ h.result.kind = "project_created"

C2_Witness ==
    \E h \in ProjectBatches :
        /\ h.outcomes[1] = "raised"
        /\ h.outcomes[3] = "failure_envelope"
        /\ SubmittedWholeList(h)
        /\ h.result.count = Len(h.emitted) - 2

\* C3: in break_down_task a failed create of subtask i, whatever the way it fails,
\* leaves subtasks i+1..n submitted, and the count returned is the number of
\* successful creations.
C3_BreakDownContinuesPastFailure ==
    \A h \in BreakDownBatches :
        /\ SubmittedWholeList(h)
        /\ h.result.kind = "broke_down"
        /\ "nonboolean_success" \notin Range(h.outcomes)
              => h.result.count = NumberOf("success_envelope", h.outcomes)

\* C4: in either creation loop the create requests sent are exactly the emitted
\* TaskSpecs, each once, in emission order.
C4_RequestsEqualEmittedList ==
    \A h \in ProjectBatches \cup BreakDownBatches : SubmittedWholeList(h)

\* the same decomposition run again: same tool, title, description and project
IsRerun(h1, h2) ==
    /\ h1.op = h2.op
    /\ h1.title = h2.title
    /\ h1.description = h2.description
    /\ h1.project_id = h2.project_id
    /\ h1.emitted # <<>>

PartiallyFailed(h) ==
    /\ "success_envelope" \in Range(h.outcomes)
    /\ \E k \in DOMAIN h.outcomes : h.outcomes[k] # "success_envelope"

CopiesInStore(req) ==
    Cardinality({n \in DOMAIN store : store[n] = StoredTask(req)})

\* only success envelopes and success:false envelopes were met, and the loop ended
OnlyEnvelopes(h) ==
    /\ Range(h.outcomes) \subseteq {"success_envelope", "failure_envelope"}
    /\ h.result.kind \in {"broke_down", "project_created"}

\* C5 as written: after the same decomposition has been run again following a
\* partially failed run, every task the first run created is in the store twice
\* (stated for runs that met nothing but success and success:false envelopes).
C5_RerunDuplicatesEveryCreatedTask ==
    \A i, j \in DOMAIN history :
        (/\ i < j
         /\ IsRerun(history[i], history[j])
         /\ PartiallyFailed(history[i])
         /\ OnlyEnvelopes(history[i])
         /\ OnlyEnvelopes(history[j]))
            => \A k \in DOMAIN history[i].outcomes :
                   history[i].outcomes[k] = "success_envelope"
                       => CopiesInStore(history[i].requests[k]) >= 2

\* C5 amended: a re-run sends again, unchanged and from the first TaskSpec on, the
\* create requests of the first run (no key, no existence check), and every task
\* whose create succeeded in the first run and succeeds again in the re-run is in
\* the store twice.
C5_RerunResubmitsAndDuplicates ==
    \A i, j \in DOMAIN history :
        (i < j /\ IsRerun(history[i], history[j]))
            => /\ history[j].requests # <<>>
               /\ \A k \in DOMAIN history[j].requests : RequestIsSpec(history[j], k)
               /\ \A k \in DOMAIN history[j].requests :
                      k \in DOMAIN history[i].requests
                          => history[j].requests[k] = history[i].requests[k]
               /\ history[j].result.kind \in {"broke_down", "project_created"}
                      => Len(history[j].requests) = Len(history[i].emitted)
               /\ \A k \in DOMAIN history[i].outcomes :
                      (/\ history[i].outcomes[k] = "success_envelope"
                       /\ k \in DOMAIN history[j].outcomes
                       /\ history[j].outcomes[k] = "success_envelope")
                          => CopiesInStore(history[i].requests[k]) >= 2

C5_Witness ==
    /\ Len(history) = 2
    /\ IsRerun(history[1], history[2])
    /\ PartiallyFailed(history[1])
    /\ PartiallyFailed(history[2])
    /\ \E k \in DOMAIN history[2].outcomes :
          /\ history[1].outcomes[k] = "success_envelope"
          /\ history[2].outcomes[k] = "success_envelope"
          /\ CopiesInStore(history[1].requests[k]) = 2

----------------------------------------------------------------------------
(* Properties of the decomposition functions.  What each vocabulary word   *)
(* holds is written down word by word, independently of the matching code. *)

Domains == {"authentication", "api", "frontend", "database"}

\* words holding, in any letter case, a keyword of the domain
AuthWords == {w_Login, w_account, w_author, w_user, w_UserData}
ApiDomainWords == {w_API, w_rapid, w_Backend, w_server, w_endpoint, w_API_UI}
FrontendWords == {w_UI, w_build, w_frontend, w_React, w_component, w_dashboard, w_API_UI}
DatabaseWords == {w_database, w_db, w_metadata, w_model, w_UserData}

\* words holding "api", "endpoint", and one of "component", "ui", "interface", "form"
HoldsApi == {w_API, w_rapid, w_API_UI}
HoldsEndpoint == {w_endpoint}
HoldsUiKeyword == {w_UI, w_build, w_component, w_interface, w_form, w_platform, w_API_UI}

Typed(ws) == Range(inwords) \cap ws # {}

ExpectedDomains ==
    (IF Typed(AuthWords) THEN {"authentication"} ELSE {})
    \cup (IF Typed(ApiDomainWords) THEN {"api"} ELSE {})
    \cup (IF Typed(FrontendWords) THEN {"frontend"} ELSE {})
    \cup (IF Typed(DatabaseWords) THEN {"database"} ELSE {})

Features(specs) == [i \in DOMAIN specs |-> specs[i].feature]
Priorities(specs) == [i \in DOMAIN specs |-> specs[i].priority]
Assignees(specs) == [i \in DOMAIN specs |-> specs[i].assignee]

\* the domains whose template shows in a decomposition
MatchedDomains(specs) == Range(Features(specs)) \cap Domains

Repeat(x, n) == [i \in 1..n |-> x]
When(d, s) == IF d \in ExpectedDomains THEN s ELSE <<>>

\* C6: a domain is matched exactly when the lower-cased "title description" text
\* holds one of its keywords as a substring, each domain on its own; text typed
\* from authentication words only is classified as exactly {authentication}.
C6_DomainsMatchedIndependently ==
    fn = "decompose_project"
        => /\ MatchedDomains(out) = ExpectedDomains
           /\ (inwords # <<>> /\ Range(inwords) \subseteq (AuthWords \ DatabaseWords))
                 => MatchedDomains(out) = {"authentication"}

C6_Witness ==
    /\ fn = "decompose_project"
    /\ inwords = <<w_Login, w_author>>
    /\ MatchedDomains(out) = {"authentication"}

\* C7: with at least one domain matched, the matched domains' templates come in
\* the order authentication, api, frontend, database, each once and whole, none
\* of an unmatched domain, and the last two specs are 'Create project
\* documentation' (Archon, 7) and 'Set up testing framework' (AI IDE Agent, 6).
C7_TemplatesConcatenatedInOrder ==
    (fn = "decompose_project" /\ ExpectedDomains # {})
        => /\ Features(out) =
                  When("authentication", Repeat("authentication", 4))
                  \o When("api", Repeat("api", 3))
                  \o When("frontend", Repeat("frontend", 3))
                  \o When("database", Repeat("database", 3))
                  \o <<"documentation", "testing">>
           /\ LET n == Len(out)
              IN  /\ out[n - 1].title = Fixed("Create project documentation")
                  /\ out[n - 1].assignee = "Archon"
                  /\ out[n - 1].priority = 7
                  /\ out[n].title = Fixed("Set up testing framework")
                  /\ out[n].assignee = "AI IDE Agent"
                  /\ out[n].priority = 6

C7_Witness ==
    /\ fn = "decompose_project"
    /\ inwords = <<w_database, w_Login>>
    /\ Features(out) = Repeat("authentication", 4) \o Repeat("database", 3)
                           \o <<"documentation", "testing">>

GenericFeatures == {"setup", "planning", "architecture"}

\* C8: the generic template is emitted if and only if no domain matched: then
\* exactly 5 specs come out (3 generic, 2 common); with a domain matched no
\* generic spec comes out.
C8_GenericIffNoDomain ==
    fn = "decompose_project"
        => IF ExpectedDomains = {}
           THEN /\ Len(out) = 5
                /\ Features(out) =
                       <<"setup", "planning", "architecture", "documentation", "testing">>
                /\ out[1].title = Fixed("Project initialization and setup")
                /\ out[2].title = Fixed("Define project requirements")
                /\ out[3].title = Fixed("Create project architecture design")
           ELSE /\ Range(Features(out)) \cap GenericFeatures = {}
                /\ \A i \in DOMAIN out :
                       out[i].title \notin {Fixed("Project initialization and setup"),
                                            Fixed("Define project requirements"),
                                            Fixed("Create project architecture design")}

C8_Witness ==
    /\ fn = "decompose_project"
    /\ inwords = <<w_platform, w_blog>>
    /\ Len(out) = 5
    /\ out[1].feature = "setup"

\* C9: whatever the text, the templates have the sizes and priorities
\* authentication (9,9,8,8), api (9,8,6), frontend (9,7,6), database (9,8,7),
\* generic (9,8,7).
C9_TemplateSizesAndPriorities ==
    fn = "decompose_project"
        => Priorities(out) =
               (IF ExpectedDomains = {} THEN <<9, 8, 7>>
                ELSE When("authentication", <<9, 9, 8, 8>>)
                     \o When("api", <<9, 8, 6>>)
                     \o When("frontend", <<9, 7, 6>>)
                     \o When("database", <<9, 8, 7>>))
               \o <<7, 6>>

C9_Witness ==
    /\ fn = "decompose_project"
    /\ inwords = <<w_UserData, w_API_UI>>
    /\ Priorities(out) = <<9, 9, 8, 8, 9, 8, 6, 9, 7, 6, 9, 8, 7, 7, 6>>

AI4 == Repeat("AI IDE Agent", 4)

\* C10: task breakdown returns exactly one template: the 5-step API template iff
\* the text holds both "api" and "endpoint"; otherwise the 4-step UI template iff
\* it holds one of "component", "ui", "interface", "form"; otherwise the 3-step
\* generic template.  Text matching rule 1 and rule 2 gets the API template only.
C10_BreakdownFirstMatchWins ==
    fn = "decompose_task"
        => IF Typed(HoldsApi) /\ Typed(HoldsEndpoint)
           THEN /\ Priorities(out) = <<8, 9, 8, 7, 6>>
                /\ Assignees(out) = <<"User">> \o AI4
                /\ Features(out) = <<"api_design", "validation", "business_logic",
                                     "error_handling", "testing">>
           ELSE IF Typed(HoldsUiKeyword)
           THEN /\ Priorities(out) = <<8, 8, 7, 6>>
                /\ Assignees(out) = <<"User">> \o Repeat("AI IDE Agent", 3)
                /\ Features(out) = <<"design", "implementation", "functionality", "styling">>
           ELSE /\ Priorities(out) = <<8, 7, 6>>
                /\ Assignees(out) = <<"User">> \o Repeat("AI IDE Agent", 2)
                /\ Features(out) = <<"planning", "implementation", "testing">>

C10_Witness ==
    /\ fn = "decompose_task"
    /\ inwords = <<w_API_UI, w_endpoint>>
    /\ Priorities(out) = <<8, 9, 8, 7, 6>>
    /\ out[1].feature = "api_design"

----------------------------------------------------------------------------
(* Assignee selection (tests/test_task_agent_simple.py, select_assignee) *)

kw_design == <<"d","e","s","i","g","n">>
kw_plan == <<"p","l","a","n">>
kw_strategy == <<"s","t","r","a","t","e","g","y">>
kw_requirements == <<"r","e","q","u","i","r","e","m","e","n","t","s">>
kw_review == <<"r","e","v","i","e","w">>
kw_coordinate == <<"c","o","o","r","d","i","n","a","t","e">>
kw_manage == <<"m","a","n","a","g","e">>
kw_orchestrate == <<"o","r","c","h","e","s","t","r","a","t","e">>
kw_workflow == <<"w","o","r","k","f","l","o","w">>
kw_implement == <<"i","m","p","l","e","m","e","n","t">>
kw_code == <<"c","o","d","e">>
kw_create == <<"c","r","e","a","t","e">>
kw_build == <<"b","u","i","l","d">>
kw_develop == <<"d","e","v","e","l","o","p">>

planning_keywords == {kw_design, kw_plan, kw_strategy, kw_requirements, kw_review}
orchestration_keywords == {kw_coordinate, kw_manage, kw_orchestrate, kw_workflow}
implementation_keywords == {kw_implement, kw_code, kw_create, kw_build, kw_develop}

\* faulty variant: implementation keywords are tested before orchestration keywords
select_assignee_implementation_first(task_title, task_description) ==
    LET text == combined_text(task_title, task_description)
    IN  IF any_keyword_in(text, planning_keywords) THEN "User"
        ELSE IF any_keyword_in(text, implementation_keywords) THEN "AI IDE Agent"
        ELSE IF any_keyword_in(text, orchestration_keywords) THEN "Archon"
        ELSE "User"

select_assignee(task_title, task_description) ==
    LET text == combined_text(task_title, task_description)
    IN  IF any_keyword_in(text, planning_keywords) THEN "User"
        ELSE IF any_keyword_in(text, orchestration_keywords) THEN "Archon"
        ELSE IF any_keyword_in(text, implementation_keywords) THEN "AI IDE Agent"
        ELSE "User"

\* The words assignee selection is exercised on
w_Design == <<"D","e","s","i","g","n">>
w_redesign == <<"r","e","d","e","s","i","g","n">>
w_Plan == <<"P","l","a","n">>
w_explanation == <<"e","x","p","l","a","n","a","t","i","o","n">>
w_Review == <<"R","e","v","i","e","w">>
w_requirements == <<"r","e","q","u","i","r","e","m","e","n","t","s">>
w_requirement == <<"r","e","q","u","i","r","e","m","e","n","t">>
w_Coordinate == <<"C","o","o","r","d","i","n","a","t","e">>
w_Manage == <<"M","a","n","a","g","e">>
w_manager == <<"m","a","n","a","g","e","r">>
w_managing == <<"m","a","n","a","g","i","n","g">>
w_workflow == <<"w","o","r","k","f","l","o","w">>
w_flow == <<"f","l","o","w">>
w_Implement == <<"I","m","p","l","e","m","e","n","t">>
w_decode == <<"d","e","c","o","d","e">>
w_Create == <<"C","r","e","a","t","e">>
w_Build == <<"B","u","i","l","d">>
w_developer == <<"d","e","v","e","l","o","p","e","r">>
w_OAuth == <<"O","A","u","t","h">>
w_team == <<"t","e","a","m">>
w_codesign == <<"c","o","d","e","s","i","g","n">>

AssigneeVocabulary ==
    {w_Design, w_redesign, w_Plan, w_explanation, w_Review, w_requirements,
     w_requirement, w_Coordinate, w_Manage, w_manager, w_managing, w_workflow,
     w_flow, w_Implement, w_decode, w_Create, w_Build, w_developer, w_OAuth,
     w_team, w_codesign, w_API}

AssigneeWordSeqs(n) == UNION {[1..k -> AssigneeVocabulary] : k \in 0..n}

InitAssignee ==
    /\ inwords \in AssigneeWordSeqs(MaxWords)
    /\ \E k \in 0..Len(inwords) :
          /\ title = Join(SubSeq(inwords, 1, k))
          /\ description = Join(SubSeq(inwords, k + 1, Len(inwords)))
    /\ fn = "none"
    /\ out = <<>>
    /\ OpsIdle

SelectAssignee ==
    /\ fn = "none"
    /\ fn' = "select_assignee"
    /\ out' = <<select_assignee(title, description)>>
    /\ UNCHANGED <<inwords, title, description, opVars>>

NextAssignee == SelectAssignee

SpecAssignee == InitAssignee /\ [][NextAssignee]_vars

\* Which words of the vocabulary hold a keyword of each class (by hand)
PlanningWords ==
    {w_Design, w_redesign, w_Plan, w_explanation, w_Review, w_requirements, w_codesign}
OrchestrationWords == {w_Coordinate, w_Manage, w_manager, w_workflow}
ImplementationWords ==
    {w_Implement, w_decode, w_Create, w_Build, w_developer, w_codesign}

Roles == {"User", "AI IDE Agent", "Archon"}

(* C11: select_assignee returns the role of the first keyword class, in the
   order planning, orchestration, implementation, that has a keyword in the
   lower-cased "title description" text: "User" whenever a planning keyword
   occurs, whatever else occurs; otherwise "Archon" when an orchestration
   keyword occurs; otherwise "AI IDE Agent" when an implementation keyword
   occurs; otherwise "User".  The result is always one of the three roles. *)
C11_AssigneeFirstClassWins ==
    fn = "select_assignee" =>
        /\ Len(out) = 1
        /\ out[1] \in Roles
        /\ out[1] = IF Typed(PlanningWords) THEN "User"
                    ELSE IF Typed(OrchestrationWords) THEN "Archon"
                    ELSE IF Typed(ImplementationWords) THEN "AI IDE Agent"
                    ELSE "User"

C11_Witness ==
    /\ fn = "select_assignee"
    /\ Typed(OrchestrationWords)
    /\ Typed(ImplementationWords)
    /\ ~Typed(PlanningWords)
    /\ out = <<"Archon">>

----------------------------------------------------------------------------
(* Project health analysis (_analyze_project_health)

   A task is a record of the two keys the analyzer reads; Absent stands for
   a dictionary without the key.  The rates are Python floats in the code;
   here a rate is kept as its numerator over total_tasks and every
   comparison and the int() truncation are carried out on integers.  For
   collections of fewer than 40 tasks the double-precision computation of
   the score gives the same integer as the exact one (the smallest
   difference is at 40 tasks, 6 done and 1 active: 9 instead of 10), and
   the three threshold comparisons agree with the exact ones.  Messages are
   written without their leading emoji. *)

Absent == "<absent>"

Task(s, a) == [status |-> s, assignee |-> a]

\* dict.get(key, default)
get(task, key, default) == IF task[key] = Absent THEN default ELSE task[key]

\* d[k] = d.get(k, 0) + 1
incremented(d, k) ==
    [x \in DOMAIN d \cup {k} |->
        IF x = k THEN (IF k \in DOMAIN d THEN d[k] ELSE 0) + 1 ELSE d[x]]

initial_status_counts == [s \in {"done", "doing", "todo", "review"} |-> 0]
initial_assignee_counts == [a \in {"User", "AI IDE Agent", "Archon"} |-> 0]

\* the counting loop, from task i on
RECURSIVE count_loop(_, _, _, _)
count_loop(ts, i, status_counts, assignee_counts) ==
    IF i > Len(ts) THEN [status_counts |-> status_counts, assignee_counts |-> assignee_counts]
    ELSE count_loop(ts, i + 1,
                    incremented(status_counts, get(ts[i], "status", "todo")),
                    incremented(assignee_counts, get(ts[i], "assignee", "User")))

counted(ts) == count_loop(ts, 1, initial_status_counts, initial_assignee_counts)

Min(a, b) == IF a < b THEN a ELSE b

\* completion_rate and activity_rate, as numerators over total_tasks
completion_num(status_counts) == status_counts["done"]
activity_num(status_counts) == status_counts["doing"] + status_counts["review"]

\* (completion_rate * 6 + activity_rate * 4), as a numerator over total_tasks
score_term_num(status_counts) ==
    completion_num(status_counts) * 6 + activity_num(status_counts) * 4

\* faulty variant: the weighted sum is not multiplied by 10
health_score_unscaled(status_counts, total_tasks) ==
    Min(10, score_term_num(status_counts) \div total_tasks)

health_score_of(status_counts, total_tasks) ==
    Min(10, (score_term_num(status_counts) * 10) \div total_tasks)

\* rate > tenths / 10, for rate = num / total_tasks
exceeds(num, total_tasks, tenths) == num * 10 > tenths * total_tasks

\* f"{n}" for a non-negative integer
Digit == <<"0", "1", "2", "3", "4", "5", "6", "7", "8", "9">>
RECURSIVE str(_)
str(n) == IF n < 10 THEN Digit[n + 1] ELSE str(n \div 10) \o Digit[(n % 10) + 1]

\* faulty variant: the activity rule is tested before the good-progress rule
primary_insight_activity_first(status_counts, total_tasks) ==
    IF exceeds(completion_num(status_counts), total_tasks, 8)
    THEN "Project is near completion!"
    ELSE IF exceeds(activity_num(status_counts), total_tasks, 3)
    THEN "Active development - many tasks in progress"
    ELSE IF exceeds(completion_num(status_counts), total_tasks, 5)
    THEN "Good progress - over half the tasks completed"
    ELSE "Project may need attention - low activity"

primary_insight(status_counts, total_tasks) ==
    IF exceeds(completion_num(status_counts), total_tasks, 8)
    THEN "Project is near completion!"
    ELSE IF exceeds(completion_num(status_counts), total_tasks, 5)
    THEN "Good progress - over half the tasks completed"
    ELSE IF exceeds(activity_num(status_counts), total_tasks, 3)
    THEN "Active development - many tasks in progress"
    ELSE "Project may need attention - low activity"

insights_of(status_counts, total_tasks) ==
    <<primary_insight(status_counts, total_tasks)>>
    \o (IF status_counts["review"] > status_counts["doing"]
        THEN <<"Many tasks in review - consider prioritizing reviews">> ELSE <<>>)

\* faulty variant: the rules are chained with elif
recommendations_first_only(status_counts, assignee_counts) ==
    IF status_counts["todo"] > status_counts["doing"] * 3
    THEN <<"Consider breaking down large tasks or increasing capacity">>
    ELSE IF assignee_counts["User"] > assignee_counts["AI IDE Agent"] * 2
    THEN <<"More tasks could be automated with AI IDE Agent">>
    ELSE IF status_counts["review"] > 3
    THEN <<"Focus on completing reviews to unblock progress">>
    ELSE <<>>

recommendations_of(status_counts, assignee_counts) ==
    (IF status_counts["todo"] > status_counts["doing"] * 3
     THEN <<"Consider breaking down large tasks or increasing capacity">> ELSE <<>>)
    \o (IF assignee_counts["User"] > assignee_counts["AI IDE Agent"] * 2
        THEN <<"More tasks could be automated with AI IDE Agent">> ELSE <<>>)
    \o (IF status_counts["review"] > 3
        THEN <<"Focus on completing reviews to unblock progress">> ELSE <<>>)

\* faulty variant: the review action carries the done count
next_actions_review_counts_done(status_counts, total_tasks) ==
    (IF status_counts["todo"] > 0
     THEN <<("Start working on " \o str(status_counts["todo"]) \o " pending tasks")>> ELSE <<>>)
    \o (IF status_counts["review"] > 0
        THEN <<("Review " \o str(status_counts["done"]) \o " completed tasks")>> ELSE <<>>)
    \o (IF exceeds(completion_num(status_counts), total_tasks, 8)
        THEN <<"Plan project completion and release tasks">> ELSE <<>>)

next_actions_of(status_counts, total_tasks) ==
    (IF status_counts["todo"] > 0
     THEN <<("Start working on " \o str(status_counts["todo"]) \o " pending tasks")>> ELSE <<>>)
    \o (IF status_counts["review"] > 0
        THEN <<("Review " \o str(status_counts["review"]) \o " completed tasks")>> ELSE <<>>)
    \o (IF exceeds(completion_num(status_counts), total_tasks, 8)
        THEN <<"Plan project completion and release tasks">> ELSE <<>>)

\* faulty variant: no early return, the rules are applied to zero counts
empty_project_health_from_rules ==
    [health_score |-> 0, completed |-> 0, in_progress |-> 0, todo |-> 0, review |-> 0,
     insights |-> <<"Project may need attention - low activity">>,
     recommendations |-> <<>>,
     next_actions |-> <<>>]

\* the result for a project without tasks
empty_project_health ==
    [health_score |-> 0, completed |-> 0, in_progress |-> 0, todo |-> 0, review |-> 0,
     insights |-> <<"No tasks in project">>,
     recommendations |-> <<"Add tasks to get started">>,
     next_actions |-> <<"Create initial project tasks">>]

_analyze_project_health(ts) ==
    LET total_tasks == Len(ts)
    IN  IF total_tasks = 0
        THEN empty_project_health
        ELSE LET c == counted(ts)
                 status_counts == c.status_counts
                 assignee_counts == c.assignee_counts
             IN  [health_score |-> health_score_of(status_counts, total_tasks),
                  completed |-> status_counts["done"],
                  in_progress |-> status_counts["doing"],
                  todo |-> status_counts["todo"],
                  review |-> status_counts["review"],
                  insights |-> insights_of(status_counts, total_tasks),
                  recommendations |-> recommendations_of(status_counts, assignee_counts),
                  next_actions |-> next_actions_of(status_counts, total_tasks)]

\* number of tasks in one collection
MaxTasks == 6

\* Values of the two keys: the documented ones, one outside them, and none
StatusValues == <<"done", "doing", "todo", "review", "blocked", Absent>>
AssigneeValues == <<"User", "AI IDE Agent", "Archon", "QA Team", Absent>>

\* The lists of n values in the order of vs: one list for every multiset
Arranged(vs, n) ==
    {[i \in 1..n |-> vs[r[i]]] :
        r \in {q \in [1..n -> 1..Len(vs)] : \A i \in 1..(n - 1) : q[i] <= q[i + 1]}}

\* Every collection of at most MaxTasks tasks, up to the order of the tasks
\* and the pairing of statuses with assignees, neither of which the counting
\* loop observes
InitHealth ==
    /\ \E n \in 0..MaxTasks :
         \E ss \in Arranged(StatusValues, n), as \in Arranged(AssigneeValues, n) :
            tasks = [i \in 1..n |-> Task(ss[i], as[i])]
    /\ inwords = <<>>
    /\ title = <<>>
    /\ description = <<>>
    /\ fn = "none"
    /\ out = <<>>
    /\ pc = "idle"
    /\ ctx_project_id = NoProject
    /\ target = NoProject
    /\ idx = 0
    /\ tasks_created = 0
    /\ requests = <<>>
    /\ outcomes = <<>>
    /\ last_response = NoResponse
    /\ result = NoResult
    /\ store = <<>>
    /\ nprojects = 0
    /\ history = <<>>
    /\ faults = 0
    /\ new_status = NoStatus
    /\ conversations = <<>>
    /\ contexts = <<>>

AnalyzeProjectHealth ==
    /\ fn = "none"
    /\ fn' = "_analyze_project_health"
    /\ out' = <<_analyze_project_health(tasks)>>
    /\ UNCHANGED <<inwords, title, description, opVars>>

NextHealth == AnalyzeProjectHealth

SpecHealth == InitHealth /\ [][NextHealth]_vars

\* The analyzed collection, counted by hand
StatusesOf(ts) == [i \in 1..Len(ts) |-> ts[i].status]
NumStatus(s) == Cardinality({i \in 1..Len(tasks) : tasks[i].status = s})
NumAssignee(a) == Cardinality({i \in 1..Len(tasks) : tasks[i].assignee = a})
Analyzed == fn = "_analyze_project_health"
AnalyzedNonEmpty == Analyzed /\ Len(tasks) > 0
\* ten times (done/total * 6 + (doing + review)/total * 4), times total
TenTermTimesTotal ==
    (6 * NumStatus("done") + 4 * (NumStatus("doing") + NumStatus("review"))) * 10

(* C12: for every non-empty task collection the health score is
   min(10, floor((done/total * 6 + (doing + review)/total * 4) * 10)): an
   integer from 0 to 10 that is the floor of the scaled term while that is
   below 10 and is 10 from there on; for the statuses
   [done, doing, todo, todo] it is exactly 10. *)
C12_HealthScoreFormula ==
    AnalyzedNonEmpty =>
        LET s == out[1].health_score
            total == Len(tasks)
        IN  /\ s \in 0..10
            /\ s < 10 => /\ s * total <= TenTermTimesTotal
                         /\ TenTermTimesTotal < (s + 1) * total
            /\ s = 10 => TenTermTimesTotal >= 10 * total
            /\ StatusesOf(tasks) = <<"done", "doing", "todo", "todo">> => s = 10

C12_Witness ==
    /\ Analyzed
    /\ StatusesOf(tasks) = <<"done", "doing", "todo", "todo">>
    /\ out[1].health_score = 10

(* C13: for every non-empty task collection the term
   (completion_rate * 6 + activity_rate * 4) of the score formula is at
   most 1, so that ten times the term is at most 10 and min(10, ...) never
   lowers a value. *)
C13_ScoreTermIsFraction ==
    AnalyzedNonEmpty =>
        LET status_counts == counted(tasks).status_counts
        IN  /\ score_term_num(status_counts) <= Len(tasks)
            /\ (score_term_num(status_counts) * 10) \div Len(tasks) <= 10

(* C14: analyzing an empty task collection returns health score 0, the
   four status counts 0, exactly one insight 'No tasks in project', exactly
   one recommendation 'Add tasks to get started' and exactly one next
   action 'Create initial project tasks'; the result is produced without
   dividing by the task total. *)
C14_EmptyProjectAnalysis ==
    (Analyzed /\ Len(tasks) = 0) =>
        /\ Len(out) = 1
        /\ out[1].health_score = 0
        /\ out[1].completed = 0 /\ out[1].in_progress = 0
        /\ out[1].todo = 0 /\ out[1].review = 0
        /\ out[1].insights = <<"No tasks in project">>
        /\ out[1].recommendations = <<"Add tasks to get started">>
        /\ out[1].next_actions = <<"Create initial project tasks">>

C14_Witness ==
    /\ Analyzed
    /\ tasks = <<>>
    /\ out[1].health_score = 0
    /\ Len(out[1].insights) = 1

NearCompletion == 5 * NumStatus("done") > 4 * Len(tasks)
OverHalfDone == 2 * NumStatus("done") > Len(tasks)
ManyActive == 10 * (NumStatus("doing") + NumStatus("review")) > 3 * Len(tasks)
MoreReviewThanDoing == NumStatus("review") > NumStatus("doing")

(* C15: for a non-empty collection the insight list starts with exactly
   one primary insight, chosen by the first applicable rule: near
   completion when completion_rate > 0.8; else good progress when
   completion_rate > 0.5; else active development when activity_rate > 0.3;
   else low activity.  The review-prioritization insight follows it exactly
   when review > doing, so the list has one or two entries. *)
C15_InsightsFirstRuleWins ==
    AnalyzedNonEmpty =>
        LET ins == out[1].insights
        IN  /\ Len(ins) \in {1, 2}
            /\ (ins[1] = "Project is near completion!") <=> NearCompletion
            /\ (ins[1] = "Good progress - over half the tasks completed")
                  <=> (~NearCompletion /\ OverHalfDone)
            /\ (ins[1] = "Active development - many tasks in progress")
                  <=> (~OverHalfDone /\ ManyActive)
            /\ (ins[1] = "Project may need attention - low activity")
                  <=> (~OverHalfDone /\ ~ManyActive)
            /\ (Len(ins) = 2) <=> MoreReviewThanDoing
            /\ Len(ins) = 2 =>
                  ins[2] = "Many tasks in review - consider prioritizing reviews"

C15_Witness ==
    /\ AnalyzedNonEmpty
    /\ OverHalfDone /\ ~NearCompletion /\ ManyActive
    /\ out[1].insights = <<"Good progress - over half the tasks completed",
                           "Many tasks in review - consider prioritizing reviews">>

\* A task without a status is counted as todo, one without an assignee as
\* a task of User
TodoCount == NumStatus("todo") + NumStatus(Absent)
UserCount == NumAssignee("User") + NumAssignee(Absent)

RecommendationOrder ==
    <<"Consider breaking down large tasks or increasing capacity",
      "More tasks could be automated with AI IDE Agent",
      "Focus on completing reviews to unblock progress">>

Holds(list, m) == \E i \in 1..Len(list) : list[i] = m

\* list is a sublist of order: its entries are entries of order, in order's
\* order and without repetition
Sublist(list, order) ==
    \E pos \in [1..Len(list) -> 1..Len(order)] :
        /\ \A i \in 1..Len(list) : list[i] = order[pos[i]]
        /\ \A i \in 1..(Len(list) - 1) : pos[i] < pos[i + 1]

(* C16: for a non-empty collection the three recommendation rules are
   evaluated independently and each is emitted exactly when its own
   condition holds, in the fixed order: todo > 3 * doing (break down /
   capacity), User-assigned count > 2 * AI-IDE-Agent-assigned count (more
   automation), review > 3 (focus on reviews). *)
C16_RecommendationsIndependent ==
    AnalyzedNonEmpty =>
        LET recs == out[1].recommendations
        IN  /\ Sublist(recs, RecommendationOrder)
            /\ Holds(recs, RecommendationOrder[1])
                  <=> TodoCount > 3 * NumStatus("doing")
            /\ Holds(recs, RecommendationOrder[2])
                  <=> UserCount > 2 * NumAssignee("AI IDE Agent")
            /\ Holds(recs, RecommendationOrder[3])
                  <=> NumStatus("review") > 3

C16_Witness ==
    /\ AnalyzedNonEmpty
    /\ NumStatus("todo") > 3 * NumStatus("doing")
    /\ NumAssignee("User") > 2 * NumAssignee("AI IDE Agent")
    /\ NumStatus("review") > 3
    /\ out[1].recommendations = RecommendationOrder

StartPending == ("Start working on " \o str(TodoCount) \o " pending tasks")
ReviewCompleted == ("Review " \o str(NumStatus("review")) \o " completed tasks")
PlanRelease == "Plan project completion and release tasks"

(* C17: for a non-empty collection the three next-action rules are
   evaluated independently: 'start working on N pending tasks' is emitted
   exactly when todo > 0 and carries the todo count, 'review N completed
   tasks' exactly when review > 0 and carries the review count, and 'plan
   project completion and release' exactly when completion_rate > 0.8; the
   emitted actions keep this order. *)
C17_NextActionsIndependent ==
    AnalyzedNonEmpty =>
        LET acts == out[1].next_actions
        IN  /\ Sublist(acts, <<StartPending, ReviewCompleted, PlanRelease>>)
            /\ Holds(acts, StartPending) <=> TodoCount > 0
            /\ Holds(acts, ReviewCompleted) <=> NumStatus("review") > 0
            /\ Holds(acts, PlanRelease) <=> NearCompletion

C17_Witness ==
    /\ AnalyzedNonEmpty
    /\ NumStatus("todo") = 2
    /\ NumStatus("review") = 3
    /\ out[1].next_actions = <<"Start working on 2 pending tasks",
                               "Review 3 completed tasks">>

DocumentedStatuses == {"todo", "doing", "review", "done"}
HealthReportKeys ==
    {"health_score", "completed", "in_progress", "todo", "review",
     "insights", "recommendations", "next_actions"}
IsHealthReport(r) == DOMAIN r = HealthReportKeys
HasUndocumentedValue ==
    \E i \in 1..Len(tasks) :
        \/ tasks[i].status \notin DocumentedStatuses \cup {Absent}
        \/ tasks[i].assignee \notin Roles \cup {Absent}

(* C18: a status outside {todo, doing, review, done} or an assignee outside
   {User, AI IDE Agent, Archon} is an input error: given a task with such a
   value the health analyzer reports an error; it does not return a health
   report in which the value was counted, defaulted or ignored. *)
C18_UndocumentedValuesAreErrors ==
    (Analyzed /\ HasUndocumentedValue) => ~IsHealthReport(out[1])

----------------------------------------------------------------------------
(* The tools that read and update the tasks of a project: list_project_tasks,
   update_task_status and analyze_project_progress.  Indicators are written
   by name instead of as emoji. *)

\* the characters of a string
RECURSIVE Chars(_)
Chars(s) == IF Len(s) = 0 THEN <<>> ELSE <<SubSeq(s, 1, 1)>> \o Chars(SubSeq(s, 2, Len(s)))

\* the text of a title built by a template
TitleText(t) == Chars(t.pre) \o t.arg \o Chars(t.post)

\* the arguments of manage_task(action="list", ...)
ListRequest(filter_by, filter_value, project_id, include_closed) ==
    [action |-> "list", filter_by |-> filter_by, filter_value |-> filter_value,
     project_id |-> project_id, include_closed |-> include_closed]

\* the arguments of manage_task(action="update", ...)
UpdateRequest(task_id, status) ==
    [action |-> "update", task_id |-> task_id, update_fields |-> [status |-> status]]

\* a task as the store lists it; its id is its position in the store
ListedTask(id) ==
    [id |-> id, title |-> store[id].title, status |-> store[id].status,
     assignee |-> store[id].assignee, task_order |-> store[id].task_order]

Selected(task, req) ==
    IF req.filter_by = "project"
    THEN task.project_id = req.filter_value
    ELSE task.project_id = req.project_id /\ task.status = req.filter_value

\* the tasks the store lists for a request, from task i on, in creation order
RECURSIVE Listing(_, _)
Listing(i, req) ==
    IF i > Len(store) THEN <<>>
    ELSE (IF Selected(store[i], req) THEN <<ListedTask(i)>> ELSE <<>>) \o Listing(i + 1, req)

ListEnvelope(ts) ==
    [shape |-> "object", success |-> "true", error |-> "absent",
     project_id |-> NoProject, tasks |-> ts]

\* tasks_data.get("tasks", [])
get_tasks(r) == IF "tasks" \in DOMAIN r THEN r.tasks ELSE <<>>

\* the store answers the list request in flight
StoreAnswersList(r, req) ==
    /\ \/ /\ r = ListEnvelope(Listing(1, req))
          /\ faults' = faults
       \/ /\ r \in FailureResponses
          /\ faults < MaxFaults
          /\ faults' = faults + 1
    /\ store' = store

\* the store answers the update request in flight
StoreAnswersUpdate(r, req) ==
    \/ /\ r = SuccessEnvelope(NoProject)
       /\ store' = [store EXCEPT ![req.task_id].status = req.update_fields.status]
       /\ faults' = faults
    \/ /\ r \in FailureResponses
       /\ faults < MaxFaults
       /\ store' = store
       /\ faults' = faults + 1

NoFilter == "<none>"
\* faulty variant: the status outside the documented ones is accepted
valid_statuses_any == {"todo", "doing", "review", "done", "blocked"}
valid_statuses == {"todo", "doing", "review", "done"}

\* what the orchestrator passes to these tools
StatusFilters == {NoFilter, "todo", "blocked"}
NewStatuses == {"todo", "doing", "review", "done", "blocked"}
w_implement == <<"i","m","p","l","e","m","e","n","t">>
UpdateTitles == {Join(<<w_form>>), Join(<<w_API>>), Join(<<w_implement>>)}

\* project_id or ctx.deps.project_id
target_project_id_of(project_id) ==
    IF project_id # NoProject THEN project_id ELSE ctx_project_id

\* what the history keeps of a finished run of one of these tools
ToolRun(op, res) == [op |-> op, kind |-> res.kind]

\* a tool returns res before its first await
ReturnsAtOnce(op, t, p, res) ==
    /\ pc = "idle"
    /\ Len(history) < MaxOps
    /\ title' = t
    /\ description' = <<>>
    /\ target' = p
    /\ tasks' = <<>>
    /\ idx' = 0
    /\ tasks_created' = 0
    /\ requests' = <<>>
    /\ outcomes' = <<>>
    /\ last_response' = NoResponse
    /\ result' = res
    /\ history' = Append(history, ToolRun(op, res))
    /\ UNCHANGED <<conversations, contexts, inwords, fn, out, pc, ctx_project_id, store, nprojects, faults>>

\* a tool runs up to its first await, which sends req
SendsFirst(nextpc, t, p, req) ==
    /\ pc = "idle"
    /\ Len(history) < MaxOps
    /\ title' = t
    /\ description' = <<>>
    /\ target' = p
    /\ tasks' = <<>>
    /\ idx' = 0
    /\ tasks_created' = 0
    /\ requests' = <<req>>
    /\ outcomes' = <<>>
    /\ last_response' = NoResponse
    /\ result' = NoResult
    /\ pc' = nextpc
    /\ UNCHANGED <<conversations, contexts, inwords, fn, out, ctx_project_id, store, nprojects, history, faults>>

\* a tool handles response r and returns res
Returns(op, r, ts, res) ==
    /\ last_response' = r
    /\ outcomes' = Append(outcomes, OutcomeClass(r))
    /\ tasks' = ts
    /\ result' = res
    /\ history' = Append(history, ToolRun(op, res))
    /\ pc' = "idle"
    /\ UNCHANGED <<conversations, contexts, inwords, title, description, fn, out, ctx_project_id, target, idx,
                   tasks_created, requests, nprojects, new_status>>

NoProjectSpecified == Result("no_project_specified", 0, NoProject, "")

\* list_project_tasks: `if not target_project_id: return "No project specified. ..."`
ListNoProject ==
    /\ ctx_project_id = NoProject
    /\ \E status_filter \in StatusFilters :
          ReturnsAtOnce("list_project_tasks", <<>>, NoProject, NoProjectSpecified)
    /\ new_status' = NoStatus

\* list_project_tasks up to `await mcp_client.manage_task(action="list", ...)`
ListCall ==
    /\ \E project_id \in ProjectArgs, status_filter \in StatusFilters :
          LET target_project_id == target_project_id_of(project_id)
          IN  /\ target_project_id # NoProject
              /\ SendsFirst("lt_list", <<>>, target_project_id,
                    IF status_filter # NoFilter
                    THEN ListRequest("status", status_filter, target_project_id, FALSE)
                    ELSE ListRequest("project", target_project_id, NoProject, FALSE))
    /\ new_status' = NoStatus

priority_indicator(task_order) ==
    IF task_order >= 8 THEN "fire" ELSE IF task_order >= 5 THEN "star" ELSE "clipboard"

status_indicator(status) ==
    CASE status = "todo" -> "hourglass" [] status = "doing" -> "arrows"
      [] status = "review" -> "eyes" [] status = "done" -> "check"
      [] OTHER -> "question"

assignee_indicator(assignee) ==
    CASE assignee = "User" -> "person" [] assignee = "AI IDE Agent" -> "robot"
      [] assignee = "Archon" -> "crown" [] OTHER -> "question"

\* the loop of list_project_tasks over the listed tasks, from task i on
RECURSIVE list_loop(_, _, _, _)
list_loop(ts, i, status_counts, task_list) ==
    IF i > Len(ts) THEN [status_counts |-> status_counts, task_list |-> task_list]
    ELSE LET status == get(ts[i], "status", "unknown")
             assignee == get(ts[i], "assignee", "unassigned")
         IN  list_loop(ts, i + 1, incremented(status_counts, status),
                       Append(task_list,
                              [priority_indicator |-> priority_indicator(ts[i].task_order),
                               status_indicator |-> status_indicator(status),
                               title |-> ts[i].title,
                               assignee_indicator |-> assignee_indicator(assignee),
                               assignee |-> assignee]))

\* status_counts.get(key, 0)
count_of(status_counts, key) ==
    IF key \in DOMAIN status_counts THEN status_counts[key] ELSE 0

task_summary(ts, p) ==
    LET l == list_loop(ts, 1, initial_status_counts, <<>>)
    IN  [kind |-> "tasks_summary", count |-> Len(ts), project_id |-> p, msg |-> "",
         todo |-> count_of(l.status_counts, "todo"),
         doing |-> count_of(l.status_counts, "doing"),
         review |-> count_of(l.status_counts, "review"),
         done |-> count_of(l.status_counts, "done"),
         task_list |-> l.task_list]

\* list_project_tasks after the await
ListResponse ==
    /\ pc = "lt_list"
    /\ \E r \in {ListEnvelope(Listing(1, requests[1]))} \cup FailureResponses :
          /\ StoreAnswersList(r, requests[1])
          /\ IF Raises(r)
             THEN Returns("list_project_tasks", r, <<>>,
                          Result("error_retrieving_tasks", 0, target, r.shape))
             ELSE IF ~get_success(r)
             THEN Returns("list_project_tasks", r, <<>>,
                          Result("error_retrieving_tasks", 0, target, get_error(r)))
             ELSE IF get_tasks(r) = <<>>
             THEN Returns("list_project_tasks", r, <<>>,
                          Result("no_tasks_found", 0, target, ""))
             ELSE Returns("list_project_tasks", r, get_tasks(r),
                          task_summary(get_tasks(r), target))

\* update_task_status: `if not target_project_id: return "No project specified. ..."`
UpdateNoProject ==
    /\ ctx_project_id = NoProject
    /\ \E task_title \in UpdateTitles, s \in NewStatuses :
          /\ ReturnsAtOnce("update_task_status", task_title, NoProject, NoProjectSpecified)
          /\ new_status' = s

\* update_task_status: `if new_status not in valid_statuses: return "Invalid status ..."`
UpdateInvalidStatus ==
    \E task_title \in UpdateTitles, s \in NewStatuses, project_id \in ProjectArgs :
        LET target_project_id == target_project_id_of(project_id)
        IN  /\ target_project_id # NoProject
            /\ s \notin valid_statuses
            /\ ReturnsAtOnce("update_task_status", task_title, target_project_id,
                             Result("invalid_status", 0, target_project_id, s))
            /\ new_status' = s

\* update_task_status up to `await mcp_client.manage_task(action="list", ...)`
UpdateCall ==
    \E task_title \in UpdateTitles, s \in NewStatuses, project_id \in ProjectArgs :
        LET target_project_id == target_project_id_of(project_id)
        IN  /\ target_project_id # NoProject
            /\ s \in valid_statuses
            /\ SendsFirst("us_list", task_title, target_project_id,
                          ListRequest("project", target_project_id, NoProject, FALSE))
            /\ new_status' = s

\* faulty variant: the titles are compared as they are written
title_matches_case_sensitive(task_title, task) ==
    Contains(TitleText(task.title), task_title)

\* `task_title.lower() in task.get("title", "").lower()`
title_matches(task_title, task) ==
    Contains(Lower(TitleText(task.title)), Lower(task_title))

\* faulty variant: a task that is done is closed and no longer matched
RECURSIVE matching_tasks_open(_, _, _)
matching_tasks_open(ts, i, task_title) ==
    IF i > Len(ts) THEN <<>>
    ELSE (IF title_matches(task_title, ts[i]) /\ ts[i].status # "done"
          THEN <<ts[i]>> ELSE <<>>)
         \o matching_tasks_open(ts, i + 1, task_title)

\* matching_tasks, from task i of the listing on
RECURSIVE matching_tasks(_, _, _)
matching_tasks(ts, i, task_title) ==
    IF i > Len(ts) THEN <<>>
    ELSE (IF title_matches(task_title, ts[i]) THEN <<ts[i]>> ELSE <<>>)
         \o matching_tasks(ts, i + 1, task_title)

\* update_task_status between its two awaits
UpdateListResponse ==
    /\ pc = "us_list"
    /\ \E r \in {ListEnvelope(Listing(1, requests[1]))} \cup FailureResponses :
          /\ StoreAnswersList(r, requests[1])
          /\ IF Raises(r)
             THEN Returns("update_task_status", r, <<>>,
                          Result("error_updating_task_status", 0, target, r.shape))
             ELSE IF ~get_success(r)
             THEN Returns("update_task_status", r, <<>>,
                          Result("error_retrieving_tasks_to_find", 0, target, ""))
             ELSE LET matching == matching_tasks(get_tasks(r), 1, title)
                  IN  IF matching = <<>>
                      THEN Returns("update_task_status", r, get_tasks(r),
                                   Result("no_task_found_matching", 0, target, ""))
                      ELSE /\ last_response' = r
                           /\ outcomes' = Append(outcomes, OutcomeClass(r))
                           /\ tasks' = get_tasks(r)
                           /\ idx' = 2
                           /\ requests' = Append(requests,
                                                 UpdateRequest(matching[1].id, new_status))
                           /\ pc' = "us_update"
                           /\ UNCHANGED <<conversations, contexts, inwords, title, description, fn, out,
                                          ctx_project_id, target, tasks_created, result,
                                          nprojects, history, new_status>>

\* update_task_status after `await mcp_client.manage_task(action="update", ...)`
UpdateResponse ==
    /\ pc = "us_update"
    /\ \E r \in {SuccessEnvelope(NoProject)} \cup FailureResponses :
          /\ StoreAnswersUpdate(r, requests[2])
          /\ IF Raises(r)
             THEN Returns("update_task_status", r, tasks,
                          Result("error_updating_task_status", 0, target, r.shape))
             ELSE IF get_success(r)
             THEN Returns("update_task_status", r, tasks,
                          Result("updated", 1, target, new_status))
             ELSE Returns("update_task_status", r, tasks,
                          Result("failed_to_update_task_status", 0, target, get_error(r)))

\* analyze_project_progress: `if not target_project_id: return "No project specified. ..."`
AnalyzeNoProject ==
    /\ ctx_project_id = NoProject
    /\ ReturnsAtOnce("analyze_project_progress", <<>>, NoProject, NoProjectSpecified)
    /\ new_status' = NoStatus

\* analyze_project_progress up to `await mcp_client.manage_task(action="list", ...)`
AnalyzeCall ==
    /\ \E project_id \in ProjectArgs :
          LET target_project_id == target_project_id_of(project_id)
          IN  /\ target_project_id # NoProject
              /\ SendsFirst("ap_list", <<>>, target_project_id,
                            ListRequest("project", target_project_id, NoProject, TRUE))
    /\ new_status' = NoStatus

\* analyze_project_progress after the await
AnalyzeResponse ==
    /\ pc = "ap_list"
    /\ \E r \in {ListEnvelope(Listing(1, requests[1]))} \cup FailureResponses :
          /\ StoreAnswersList(r, requests[1])
          /\ IF Raises(r)
             THEN Returns("analyze_project_progress", r, <<>>,
                          Result("error_analyzing_project_progress", 0, target, r.shape))
             ELSE IF ~get_success(r)
             THEN Returns("analyze_project_progress", r, <<>>,
                          Result("error_retrieving_tasks_for_analysis", 0, target, ""))
             ELSE IF get_tasks(r) = <<>>
             THEN Returns("analyze_project_progress", r, <<>>,
                          Result("no_tasks_to_analyze", 0, target, ""))
             ELSE Returns("analyze_project_progress", r, get_tasks(r),
                          [kind |-> "progress_analysis", count |-> Len(get_tasks(r)),
                           project_id |-> target, msg |-> "",
                           analysis |-> _analyze_project_health(get_tasks(r))])

\* the tasks project 1 holds from the start: the first two sub-tasks of an
\* earlier break_down_task("form")
SeedStore ==
    LET subtasks == _analyze_and_break_down_task(Join(<<w_form>>), <<>>)
    IN  <<StoredTask(CreateRequest(1, subtasks[1])), StoredTask(CreateRequest(1, subtasks[2]))>>

InitTools ==
    /\ inwords = <<>>
    /\ title = <<>>
    /\ description = <<>>
    /\ fn = "none"
    /\ out = <<>>
    /\ pc = "idle"
    /\ nprojects = 1
    /\ ctx_project_id \in {NoProject, 1}
    /\ target = NoProject
    /\ tasks = <<>>
    /\ idx = 0
    /\ tasks_created = 0
    /\ requests = <<>>
    /\ outcomes = <<>>
    /\ last_response = NoResponse
    /\ result = NoResult
    /\ store \in {<<>>, SeedStore}
    /\ history = <<>>
    /\ faults = 0
    /\ new_status = NoStatus
    /\ conversations = <<>>
    /\ contexts = <<>>

NextTools ==
    \/ BreakDownNoProject
    \/ ListNoProject
    \/ ListCall
    \/ ListResponse
    \/ UpdateNoProject
    \/ UpdateInvalidStatus
    \/ UpdateCall
    \/ UpdateListResponse
    \/ UpdateResponse
    \/ AnalyzeNoProject
    \/ AnalyzeCall
    \/ AnalyzeResponse

SpecTools == InitTools /\ [][NextTools]_vars

\* the tool that is running or ran last
LastTool ==
    IF pc = "lt_list" THEN "list_project_tasks"
    ELSE IF pc \in {"us_list", "us_update"} THEN "update_task_status"
    ELSE IF pc = "ap_list" THEN "analyze_project_progress"
    ELSE IF pc = "bd_create" THEN "break_down_task"
    ELSE IF Len(history) > 0 THEN history[Len(history)].op
    ELSE "none"

\* nothing was sent to the store and nothing came back
NothingSent == requests = <<>> /\ outcomes = <<>> /\ last_response = NoResponse
ProjectTools ==
    {"break_down_task", "list_project_tasks", "update_task_status",
     "analyze_project_progress"}

(* C19: validation failures end the tool before any remote call.  When
   break_down_task, list_project_tasks, update_task_status or
   analyze_project_progress is invoked with neither a project_id argument
   nor a context project id, and when update_task_status is invoked with a
   new_status outside {todo, doing, review, done}, the tool has returned
   its message and has sent no request to the store. *)
C19_ValidationBeforeRemoteCall ==
    /\ (LastTool \in ProjectTools /\ target = NoProject) =>
          /\ pc = "idle"
          /\ result.kind = "no_project_specified"
          /\ NothingSent
    /\ (LastTool = "update_task_status" /\ new_status \notin DocumentedStatuses) =>
          /\ pc = "idle"
          /\ result.kind \in {"no_project_specified", "invalid_status"}
          /\ NothingSent

C19_Witness ==
    /\ LastTool = "update_task_status"
    /\ target # NoProject
    /\ new_status = "blocked"
    /\ result.kind = "invalid_status"
    /\ NothingSent
    /\ Len(history) = 2
    /\ history[1].op = "update_task_status"
    /\ history[1].kind = "updated"

(* C20: list_project_tasks rejects a status filter outside
   {todo, doing, review, done}: it returns a message at once, and no list
   request filtered by such a status is sent to the store. *)
C20_MalformedFilterRejected ==
    \A i \in 1..Len(requests) :
        (requests[i].action = "list" /\ requests[i].filter_by = "status")
            => requests[i].filter_value \in DocumentedStatuses

\* a tool has returned after handling a success:false envelope with an error member
ReturnedOnFailureEnvelope ==
    /\ pc = "idle"
    /\ last_response.shape = "object"
    /\ last_response.success = "false"
    /\ last_response.error # "absent"

(* C21: whenever a remote call made by list_project_tasks,
   update_task_status (its list step and its update step) or
   analyze_project_progress returns a success:false envelope with an error
   member, the string the tool returns contains that exact error message. *)
C21_ErrorMessageSurfaced ==
    (ReturnedOnFailureEnvelope /\ LastTool \in ProjectTools)
        => result.msg = last_response.error

----------------------------------------------------------------------------
(* All five tools of one conversation together *)

\* number of tool invocations in one behaviour of all five tools together
MaxAllOps == 1

\* a tool may start while fewer than MaxAllOps have finished; a running one goes on
MayRun == pc # "idle" \/ Len(history) < MaxAllOps

NextAllTools ==
    \/ MayRun /\ CreateProjectCall
    \/ MayRun /\ CreateProjectRaised
    \/ MayRun /\ CreateProjectRejected
    \/ MayRun /\ CreateProjectOk
    \/ MayRun /\ GenerateTaskResponse
    \/ MayRun /\ BreakDownCall
    \/ MayRun /\ BreakDownNoProject
    \/ MayRun /\ BreakDownResponse
    \/ MayRun /\ ListNoProject
    \/ MayRun /\ ListCall
    \/ MayRun /\ ListResponse
    \/ MayRun /\ UpdateNoProject
    \/ MayRun /\ UpdateInvalidStatus
    \/ MayRun /\ UpdateCall
    \/ MayRun /\ UpdateListResponse
    \/ MayRun /\ UpdateResponse
    \/ MayRun /\ AnalyzeNoProject
    \/ MayRun /\ AnalyzeCall
    \/ MayRun /\ AnalyzeResponse

SpecAllTools == InitTools /\ [][NextAllTools]_vars

\* the strings a tool returns, by kind
FailureStrings ==
    {"error_creating_project", "failed_to_create_project", "error_breaking_down_task",
     "error_retrieving_tasks", "error_updating_task_status",
     "error_retrieving_tasks_to_find", "failed_to_update_task_status",
     "error_analyzing_project_progress", "error_retrieving_tasks_for_analysis"}
ReturnedStrings ==
    FailureStrings \cup
    {"project_created", "broke_down", "no_project_specified", "invalid_status",
     "no_tasks_found", "tasks_summary", "no_task_found_matching", "updated",
     "no_tasks_to_analyze", "progress_analysis"}
AllTools == ProjectTools \cup {"create_project_with_tasks"}
Finished == pc = "idle" /\ LastTool \in AllTools
\* the response handled last was no JSON object: the call raised, or its
\* text was not JSON, or JSON of another type
LastWasNoObject == last_response.shape \in {"raise", "text", "json_other"}

(* C22: no tool propagates a failure.  Whatever the store answered (a
   raised transport error, a success:false envelope, text that is not JSON,
   JSON that is no object), a finished create_project_with_tasks,
   break_down_task, list_project_tasks, update_task_status or
   analyze_project_progress has returned one of its strings; and an answer
   that is no JSON object is never taken for a success: the tool returns a
   failure string, or, in the project batch, goes on without counting it. *)
C22_NoFailurePropagates ==
    Finished =>
        /\ result.kind \in ReturnedStrings
        /\ LastWasNoObject =>
              \/ result.kind \in FailureStrings
              \/ /\ LastTool = "create_project_with_tasks"
                 /\ result.kind = "project_created"
                 /\ result.count <= Len(outcomes) - NumberOf("raised", outcomes)

C22_Witness ==
    /\ Finished
    /\ LastTool = "update_task_status"
    /\ Len(requests) = 2
    /\ last_response = NonObjectJson
    /\ result.kind = "error_updating_task_status"

\* update_task_status has listed the project's tasks and one of them holds
\* the given title
SomeTaskMatches ==
    /\ LastTool = "update_task_status"
    /\ \E i \in 1..Len(tasks) : title_matches(title, tasks[i])
\* the status the first listed task holding the title had when it was listed
RECURSIVE FirstMatchFrom(_)
FirstMatchFrom(i) == IF title_matches(title, tasks[i]) THEN i ELSE FirstMatchFrom(i + 1)
CurrentStatus == tasks[FirstMatchFrom(1)].status

(* C23: there is no status state machine.  Given any new_status among todo,
   doing, review and done, update_task_status does not reject it, and once a
   listed task holds the title it sends the update request for the first
   such task carrying that new_status, whatever status the task has at that
   moment; when the store accepts, the tool reports the update. *)
C23_AnyStatusTransition ==
    (LastTool = "update_task_status" /\ target # NoProject
        /\ new_status \in DocumentedStatuses) =>
        /\ result.kind # "invalid_status"
        /\ SomeTaskMatches =>
              /\ Len(requests) = 2
              /\ requests[2].action = "update"
              /\ requests[2].task_id = tasks[FirstMatchFrom(1)].id
              /\ requests[2].update_fields.status = new_status
              /\ (pc = "idle" /\ get_success(last_response)) => result.kind = "updated"

\* a done task is sent back to todo
C23_Witness ==
    /\ SomeTaskMatches
    /\ pc = "idle"
    /\ CurrentStatus = "done"
    /\ new_status = "todo"
    /\ result.kind = "updated"
    /\ store[requests[2].task_id].status = "todo"
----
(* Concurrent conversations (run_conversation) *)

\* number of run_conversation calls in progress at once
MaxConversations == 2
\* tool calls the agents make in all conversations together
MaxToolCalls == 3

Conversations == 1..MaxConversations
NoTask == 0
\* a TaskDependencies object: `TaskDependencies(project_id=..., current_task_id=...)`
TaskDependencies(project_id, current_task_id) ==
    [project_id |-> project_id, current_task_id |-> current_task_id]

\* faulty variant: every call works on one TaskDependencies object kept by the agent
deps_shared(c) == 1
\* the object `deps` of call c: run_conversation builds a new one in every call
deps_of(c) == c

\* a call that has not started
NotStarted ==
    [pc |-> "none", deps |-> 0, given |-> NoProject, created |-> {},
     tool |-> "none", target |-> NoProject, from_ctx |-> FALSE, calls |-> 0]

\* the call's tool has returned to the agent
BackToAgent(c) ==
    [conversations EXCEPT ![c].pc = "agent", ![c].tool = "none",
                          ![c].target = NoProject, ![c].from_ctx = FALSE]

\* ctx.deps of a tool running in call c
ctx_deps(c) == contexts[conversations[c].deps]

convOther ==
    <<inwords, title, description, fn, out, pc, ctx_project_id, target, tasks, idx,
      tasks_created, requests, outcomes, last_response, result, store, history,
      faults, new_status>>

InitConversations ==
    /\ inwords = <<>>
    /\ title = <<>>
    /\ description = <<>>
    /\ fn = "none"
    /\ out = <<>>
    /\ pc = "idle"
    /\ ctx_project_id = NoProject
    /\ target = NoProject
    /\ tasks = <<>>
    /\ idx = 0
    /\ tasks_created = 0
    /\ requests = <<>>
    /\ outcomes = <<>>
    /\ last_response = NoResponse
    /\ result = NoResult
    /\ store = <<>>
    /\ history = <<>>
    /\ faults = 0
    /\ new_status = NoStatus
    /\ nprojects = 1
    /\ conversations = [c \in Conversations |-> NotStarted]
    /\ contexts = [o \in Conversations |-> TaskDependencies(NoProject, NoTask)]

\* run_conversation up to `await self.run(user_message, deps)`
RunConversation(c) ==
    /\ conversations[c].pc = "none"
    /\ \E project_id \in ProjectArgs :
          /\ contexts' = [contexts EXCEPT
                             ![deps_of(c)] = TaskDependencies(project_id, NoTask)]
          /\ conversations' = [conversations EXCEPT
                                  ![c].pc = "agent", ![c].deps = deps_of(c),
                                  ![c].given = project_id]
    /\ UNCHANGED <<convOther, nprojects>>

RECURSIVE CallsUpTo(_)
CallsUpTo(c) == IF c = 0 THEN 0 ELSE conversations[c].calls + CallsUpTo(c - 1)
MayCall(c) == conversations[c].pc = "agent" /\ CallsUpTo(MaxConversations) < MaxToolCalls

\* create_project_with_tasks up to `await mcp_client.manage_project(...)`
ConvCreateProjectCall(c) ==
    /\ MayCall(c)
    /\ conversations' = [conversations EXCEPT
                            ![c].pc = "cp_project", ![c].tool = "create_project_with_tasks",
                            ![c].calls = @ + 1, ![c].target = NoProject,
                            ![c].from_ctx = FALSE]
    /\ UNCHANGED <<convOther, nprojects, contexts>>

\* create_project_with_tasks after the await: on success
\* `ctx.deps.project_id = project_id`, then the task creates for that project
ConvCreateProjectResponse(c) ==
    /\ conversations[c].pc = "cp_project"
    /\ \/ /\ nprojects' = nprojects + 1
          /\ contexts' = [contexts EXCEPT
                             ![conversations[c].deps].project_id = nprojects + 1]
          /\ conversations' = [conversations EXCEPT
                                  ![c].pc = "gp_create", ![c].target = nprojects + 1,
                                  ![c].created = @ \cup {nprojects + 1}]
       \/ /\ conversations' = BackToAgent(c)
          /\ UNCHANGED <<nprojects, contexts>>
    /\ UNCHANGED convOther

\* _generate_project_tasks: the creates, awaited one by one, then the return
ConvGenerateTasksDone(c) ==
    /\ conversations[c].pc = "gp_create"
    /\ conversations' = BackToAgent(c)
    /\ UNCHANGED <<convOther, nprojects, contexts>>

\* one of the four project tools up to its first await:
\* `target_project_id = project_id or ctx.deps.project_id`
ConvToolCall(c) ==
    /\ MayCall(c)
    /\ \E tool \in ProjectTools, project_id \in {NoProject} \cup (1..nprojects) :
          LET target_project_id ==
                  IF project_id # NoProject THEN project_id ELSE ctx_deps(c).project_id
          IN  IF target_project_id = NoProject
              THEN conversations' = [BackToAgent(c) EXCEPT ![c].calls = @ + 1]
              ELSE conversations' = [conversations EXCEPT
                      ![c].pc = "tool_await",
                      ![c].tool = tool,
                      ![c].calls = @ + 1,
                      ![c].target = target_project_id,
                      ![c].from_ctx = (project_id = NoProject)]
    /\ UNCHANGED <<convOther, nprojects, contexts>>

\* the tool's remote calls are answered and it returns its string
ConvToolResponse(c) ==
    /\ conversations[c].pc = "tool_await"
    /\ conversations' = BackToAgent(c)
    /\ UNCHANGED <<convOther, nprojects, contexts>>

\* `return result`, or `except Exception: return "Error: Failed to process ..."`
ConversationReturns(c) ==
    /\ conversations[c].pc = "agent"
    /\ conversations' = [conversations EXCEPT ![c].pc = "done"]
    /\ UNCHANGED <<convOther, nprojects, contexts>>

NextConversations ==
    \/ \E c \in Conversations : RunConversation(c)
    \/ \E c \in Conversations : ConvCreateProjectCall(c)
    \/ \E c \in Conversations : ConvCreateProjectResponse(c)
    \/ \E c \in Conversations : ConvGenerateTasksDone(c)
    \/ \E c \in Conversations : ConvToolCall(c)
    \/ \E c \in Conversations : ConvToolResponse(c)
    \/ \E c \in Conversations : ConversationReturns(c)

SpecConversations == InitConversations /\ [][NextConversations]_vars

\* call c has a project tool in flight whose target was read from its context
ReadsContextTarget(c) ==
    /\ conversations[c].pc = "tool_await"
    /\ conversations[c].tool \in ProjectTools
    /\ conversations[c].from_ctx

(* C24: concurrent conversations are isolated.  The target project a tool
   of one run_conversation call reads from its context is the project id
   that call was given or a project that same call created, never a project
   created by create_project_with_tasks in another call, however the remote
   calls of the conversations interleave. *)
C24_ConversationsIsolated ==
    \A c \in Conversations :
        ReadsContextTarget(c) =>
            /\ conversations[c].target \in
                  {conversations[c].given} \cup conversations[c].created
            /\ \A d \in Conversations \ {c} :
                  conversations[c].target \notin conversations[d].created

\* two calls have each created a project, and the one whose project is the
\* older then reads its own from the context
C24_Witness ==
    \E c \in Conversations, d \in Conversations :
        /\ c # d
        /\ ReadsContextTarget(c)
        /\ conversations[c].created # {}
        /\ conversations[d].created # {}
        /\ \A p \in conversations[d].created : conversations[c].target < p
----
(* The HTTP client of the agents service
   (python/src/server/services/agents_service_client.py) *)

\* calls of the client in one behaviour
MaxHttpCalls == 2

\* Python's None where a mapping is expected, and `context or {}`
NoContext == <<>>
context_or_empty(context) == IF context = NoContext THEN <<>> ELSE context
\* {**base, **extra}: the later keys win
Merged(base, extra) ==
    [k \in DOMAIN base \cup DOMAIN extra |->
        IF k \in DOMAIN extra THEN extra[k] ELSE base[k]]

\* request_data of call_document_agent
document_request_data(prompt, project_id, user_id, context) ==
    [agent_type |-> "document", prompt |-> prompt,
     context |-> Merged([project_id |-> project_id, user_id |-> user_id],
                        context_or_empty(context))]

\* request_data of call_rag_agent
rag_request_data(prompt, project_id, source_filter, match_count, context) ==
    [agent_type |-> "rag", prompt |-> prompt,
     context |-> Merged([project_id |-> project_id, source_filter |-> source_filter,
                         match_count |-> match_count],
                        context_or_empty(context))]

\* what `await client.post(...)` does: it raises, or it gives a response
PostRaises(class, text) == [kind |-> "raised", class |-> class, text |-> text]
HttpResponse(status_code, body) ==
    [kind |-> "response", status_code |-> status_code, body |-> body]
\* response bodies: text that is not JSON, JSON that is no object, objects
BodyText == [shape |-> "text"]
BodyList == [shape |-> "json_other"]
BodyObjects ==
    {[shape |-> "object", success |-> "true", result |-> "answer"],
     [shape |-> "object", success |-> "false", error |-> "agent failed"],
     [shape |-> "object", detail |-> "no success member"]}
PostOutcomes ==
    {PostRaises("ConnectError", "All connection attempts failed"),
     PostRaises("ReadTimeout", "The read operation timed out"),
     PostRaises("TypeError", "Object is not JSON serializable")}
    \cup {HttpResponse(200, b) : b \in BodyObjects \cup {BodyText, BodyList}}
    \cup {HttpResponse(s, [shape |-> "object", detail |-> "Not Found"]) : s \in {302, 404, 500}}

\* the exception classes that are httpx.HTTPError
HTTPErrorClasses == {"ConnectError", "ReadTimeout", "HTTPStatusError"}

\* the two except clauses
unexpected_error_only(class, text) ==
    [success |-> "false", error |-> "Unexpected error: " \o text, result |-> "null"]
except_clauses(class, text) ==
    IF class \in HTTPErrorClasses
    THEN [success |-> "false", error |-> "HTTP error: " \o text, result |-> "null"]
    ELSE [success |-> "false", error |-> "Unexpected error: " \o text, result |-> "null"]

\* response.raise_for_status() raises
raise_for_status_raises(response) ==
    response.status_code < 200 \/ response.status_code > 299

\* the try block after the await, and the except clauses
after_post(o) ==
    IF o.kind = "raised" THEN except_clauses(o.class, o.text)
    ELSE IF raise_for_status_raises(o)
    THEN except_clauses("HTTPStatusError", "Error response " \o str(o.status_code))
    ELSE IF o.body.shape = "text"
    THEN except_clauses("JSONDecodeError", "Expecting value")
    ELSE IF o.body.shape # "object"
    THEN except_clauses("AttributeError", "'list' object has no attribute 'get'")
    ELSE o.body

HttpPrompts == {"summarize", "search"}
HttpContexts == {NoContext, [note |-> "draft"]}

httpOther ==
    <<inwords, title, description, out, ctx_project_id, target, tasks, idx,
      tasks_created, outcomes, store, nprojects, faults, new_status,
      conversations, contexts>>

InitHttp ==
    /\ inwords = <<>>
    /\ title = <<>>
    /\ description = <<>>
    /\ fn = "none"
    /\ out = <<>>
    /\ pc = "idle"
    /\ ctx_project_id = NoProject
    /\ target = NoProject
    /\ tasks = <<>>
    /\ idx = 0
    /\ tasks_created = 0
    /\ requests = <<>>
    /\ outcomes = <<>>
    /\ last_response = NoResponse
    /\ result = NoResult
    /\ store = <<>>
    /\ nprojects = 0
    /\ history = <<>>
    /\ faults = 0
    /\ new_status = NoStatus
    /\ conversations = <<>>
    /\ contexts = <<>>

\* a call up to `await client.post(...)`
PostsRequest(method, request_data) ==
    /\ pc = "idle"
    /\ Len(history) < MaxHttpCalls
    /\ fn' = method
    /\ requests' = <<request_data>>
    /\ last_response' = NoResponse
    /\ result' = NoResult
    /\ pc' = "http_post"
    /\ UNCHANGED <<httpOther, history>>

CallDocumentAgent ==
    \E prompt \in HttpPrompts, project_id \in {1, 2}, context \in HttpContexts :
        PostsRequest("call_document_agent",
                     document_request_data(prompt, project_id, "user", context))

CallRagAgent ==
    \E prompt \in HttpPrompts, project_id \in {NoProject, 1}, context \in HttpContexts :
        PostsRequest("call_rag_agent",
                     rag_request_data(prompt, project_id, "docs", 5, context))

\* the await is over: the rest of the try block, or an except clause, returns
HttpReturns ==
    /\ pc = "http_post"
    /\ \E o \in PostOutcomes :
          /\ last_response' = o
          /\ result' = after_post(o)
    /\ history' = Append(history, fn)
    /\ pc' = "idle"
    /\ UNCHANGED <<httpOther, fn, requests>>

NextHttp ==
    \/ CallDocumentAgent
    \/ CallRagAgent
    \/ HttpReturns

SpecHttp == InitHttp /\ [][NextHttp]_vars

HttpCallFinished == pc = "idle" /\ fn \in {"call_document_agent", "call_rag_agent"}
\* the failure reports, as the contract words them
TransportFailure ==
    \/ last_response.kind = "raised" /\ last_response.class \in {"ConnectError", "ReadTimeout"}
    \/ last_response.kind = "response" /\ last_response.status_code \notin 200..299
DecodedObject ==
    /\ last_response.kind = "response"
    /\ last_response.status_code \in 200..299
    /\ last_response.body.shape = "object"
StartsWith(s, prefix) ==
    Len(s) >= Len(prefix) /\ SubSeq(s, 1, Len(prefix)) = prefix
IsFailureReport(r, prefix) ==
    /\ DOMAIN r = {"success", "error", "result"}
    /\ r.success = "false"
    /\ r.result = "null"
    /\ StartsWith(r.error, prefix)

(* C25: the HTTP agents client never raises from call_document_agent or
   call_rag_agent and posts exactly one request per call.  A finished call
   has returned a value: after a transport failure (connection error,
   timeout, status outside 2xx) {success: false, error: 'HTTP error: ...',
   result: null}; after any other exception, a body that is no JSON object
   included, {success: false, error: 'Unexpected error: ...', result:
   null}; otherwise the decoded response object itself. *)
C25_HttpClientNeverRaises ==
    HttpCallFinished =>
        /\ Len(requests) = 1
        /\ result # NoResult
        /\ IF TransportFailure THEN IsFailureReport(result, "HTTP error: ")
           ELSE IF DecodedObject THEN result = last_response.body
           ELSE IsFailureReport(result, "Unexpected error: ")

\* a 200 response whose body is a JSON list
C25_Witness ==
    /\ HttpCallFinished
    /\ fn = "call_rag_agent"
    /\ last_response = HttpResponse(200, BodyList)
    /\ IsFailureReport(result, "Unexpected error: ")
    /\ Len(history) = 2
    /\ history[1] = "call_document_agent"

(* C26: an envelope is a success only when its success member is exactly the
   boolean true.  Every finished project batch returns as its count the
   number of answers whose success member was true; an answer whose success
   member is missing, false or not a boolean (the string "false") is not
   counted as a created task. *)
C26_OnlyBooleanTrueCounts ==
    \A h \in ProjectBatches :
        h.result.count = NumberOf("success_envelope", h.outcomes)
----
(* The analyzer on large projects that have hardly started *)

\* tasks in a project
MaxTotal == 41
\* tasks of it that are done or doing
MaxStarted == 2

\* a project of `total` tasks: first the done, then the doing, the rest todo
StartedProject(done, doing, total) ==
    [i \in 1..total |->
        Task(IF i <= done THEN "done" ELSE IF i <= done + doing THEN "doing" ELSE "todo",
             "User")]

\* Every project of at most MaxTotal tasks of which at most MaxStarted are
\* done or doing and the others todo.  On these the doubles of the score
\* computation and the exact quotients used here have the same integer part.
InitHealthLarge ==
    /\ \E total \in 1..MaxTotal, done \in 0..MaxStarted, doing \in 0..MaxStarted :
          /\ done + doing <= MaxStarted
          /\ done + doing <= total
          /\ tasks = StartedProject(done, doing, total)
    /\ inwords = <<>>
    /\ title = <<>>
    /\ description = <<>>
    /\ fn = "none"
    /\ out = <<>>
    /\ pc = "idle"
    /\ ctx_project_id = NoProject
    /\ target = NoProject
    /\ idx = 0
    /\ tasks_created = 0
    /\ requests = <<>>
    /\ outcomes = <<>>
    /\ last_response = NoResponse
    /\ result = NoResult
    /\ store = <<>>
    /\ nprojects = 0
    /\ history = <<>>
    /\ faults = 0
    /\ new_status = NoStatus
    /\ conversations = <<>>
    /\ contexts = <<>>

SpecHealthLarge == InitHealthLarge /\ [][NextHealth]_vars

(* C27: the health score is 0 for every non-empty project whose tasks are
   all todo, and above 0 for every project with at least one task done or
   doing, whatever the number of tasks. *)
C27_ScorePositiveOnceStarted ==
    AnalyzedNonEmpty =>
        /\ NumStatus("todo") = Len(tasks) => out[1].health_score = 0
        /\ NumStatus("done") + NumStatus("doing") >= 1 => out[1].health_score > 0

\* the answer to the project create was a success envelope
ProjectCreateSucceeds ==
    pc = "cp_project" /\ OutcomeClass(last_response') = "success_envelope"
ProjectCreateFails ==
    pc = "cp_project" /\ OutcomeClass(last_response') \in {"failure_envelope", "raised"}

(* C28: create_project_with_tasks changes the context's project id only on
   a success envelope for the project create, to the project_id of that
   envelope, and has done so when the first task create is sent, which goes
   to that project; when the project create fails (success:false, or a raised
   error) the context's project id is unchanged, no task create is sent, the
   store is unchanged and the tool returns. *)
C28_ContextSetOnlyOnProjectSuccess ==
    [][ /\ ctx_project_id' # ctx_project_id =>
              /\ ProjectCreateSucceeds
              /\ ctx_project_id' = last_response'.project_id
              /\ requests = <<>>
              /\ \A k \in DOMAIN requests' : requests'[k].project_id = ctx_project_id'
        /\ ProjectCreateFails =>
              /\ ctx_project_id' = ctx_project_id
              /\ requests' = <<>>
              /\ store' = store
              /\ pc' = "idle"
              /\ result'.kind \in {"failed_to_create_project", "error_creating_project"}
      ]_vars

\* after a rejected project create left the context alone, a second project
\* create succeeded: the first task create is in flight to the new project
C28_Witness ==
    /\ pc = "gp_create"
    /\ Len(history) = 1
    /\ history[1].result.kind = "failed_to_create_project"
    /\ Len(requests) = 1
    /\ outcomes = <<>>
    /\ ctx_project_id = requests[1].project_id
    /\ ctx_project_id = last_response.project_id
    /\ ctx_project_id # NoProject

\* the listed task's title holds the given title, letter case aside
HoldsTitle(task) == Contains(Lower(TitleText(task.title)), Lower(title))
UpdatesSent == {k \in DOMAIN requests : requests[k].action = "update"}
ListSucceeded == Len(outcomes) >= 1 /\ outcomes[1] = "success_envelope"
\* task i is the first of the listing that holds the title
FirstHolder(i) == HoldsTitle(tasks[i]) /\ \A j \in 1..(i - 1) : ~HoldsTitle(tasks[j])

UpdateAfterMatchOnly ==
    LastTool = "update_task_status" =>
        /\ Cardinality(UpdatesSent) <= 1
        /\ UpdatesSent # {} =>
              /\ UpdatesSent = {2}
              /\ ListSucceeded
              /\ \E i \in DOMAIN tasks :
                    FirstHolder(i) /\ requests[2].task_id = tasks[i].id
        /\ (ListSucceeded /\ \E i \in DOMAIN tasks : HoldsTitle(tasks[i])) =>
              UpdatesSent # {}

StoreChangesByThatUpdate ==
    store' # store =>
        /\ pc = "us_update"
        /\ UpdatesSent = {2}
        /\ Len(store') = Len(store)
        /\ \A i \in DOMAIN store : i # requests[2].task_id => store'[i] = store[i]

(* C29: update_task_status sends at most one update request in an
   invocation, and only after its list request succeeded and listed a task
   whose title holds the given title, letter case aside; the update goes to
   the first such task of the listing.  When the list request fails or no
   listed title holds the given one, no update is sent; and no stored task
   ever changes but the one an update was sent for. *)
C29_SingleUpdateOfFirstMatch ==
    [] UpdateAfterMatchOnly /\ [][StoreChangesByThatUpdate]_vars

\* "implement" is held by the second listed title only, "Implement form structure"
C29_Witness ==
    /\ LastTool = "update_task_status"
    /\ pc = "idle"
    /\ title = Join(<<w_implement>>)
    /\ Len(tasks) = 2
    /\ ~HoldsTitle(tasks[1])
    /\ result.kind = "updated"
    /\ requests[2].task_id = tasks[2].id
    /\ store[2].status = new_status
    /\ store[1].status = "todo"
    /\ new_status # "todo"

AssigneeSet == {"User", "AI IDE Agent", "Archon"}

(* C30: every TaskSpec that decompose_project or decompose_task emits, for
   every input text, has an assignee among User, AI IDE Agent and Archon and
   a priority from 0 to 10, and the create request made for it carries that
   assignee and task_order equal to that priority; decompose_project emits
   from 5 to 15 specs, decompose_task 3, 4 or 5. *)
C30_EmittedSpecsWellFormed ==
    /\ fn \in {"decompose_project", "decompose_task"} =>
          \A i \in DOMAIN out :
              /\ out[i].assignee \in AssigneeSet
              /\ out[i].priority \in 0..10
              /\ CreateRequest(1, out[i]).task_order = out[i].priority
              /\ CreateRequest(1, out[i]).assignee = out[i].assignee
    /\ fn = "decompose_project" => Len(out) \in 5..15
    /\ fn = "decompose_task" => Len(out) \in {3, 4, 5}

\* all four domains matched: fifteen specs, all three assignees among them
C30_Witness ==
    /\ fn = "decompose_project"
    /\ Len(out) = 15
    /\ {out[i].assignee : i \in DOMAIN out} = AssigneeSet
    /\ \A i \in DOMAIN out : CreateRequest(1, out[i]).task_order = out[i].priority
====
